---- MODULE Spec2Model ----
(***************************************************************************)
(* Polling state machines of the VTF frontend.                             *)
(*                                                                         *)
(*   SpecApp : src/src/App.tsx (first App, lines 1-368): the single and    *)
(*             the batch poller of the polling effect, the run handlers,   *)
(*             navigation, and the requests they leave in flight.          *)
(*   SpecPid : src/src/components/ProcessInvestigation.tsx: the per-PID    *)
(*             pollers of handleRunForPid, handleSelectProcess and the     *)
(*             loadExisting preload.                                       *)
(*   Spec    : either of the two; `mounted` tells which component a        *)
(*             behaviour exercises (they share no state).                  *)
(*                                                                         *)
(* React state is a variable per useState cell.  A handler's synchronous   *)
(* part, the render it causes and the effects of that render are one       *)
(* action; every await is a request in flight in `net` (a bag), answered   *)
(* by the backend in one step and resumed by the client in another.        *)
(***************************************************************************)
EXTENDS Bags, FiniteSets, Integers, Naturals, Sequences, TLC

\* ------------------------------------------------------------------ bounds
MaxInFlight == 2      \* requests of a component outstanding at once
MaxPollers  == 2      \* interval closures of a component alive at once
MaxRows     == 1      \* rows of a non-empty result set
MaxRuns     == 2      \* run requests a component submits in one behaviour
MaxLoads    == 2      \* runs of PluginSelector's metadata effect
MaxOps      == 3      \* operations invoked on InvestigationProvider

\* ------------------------------------------------------------ value spaces
\* A plugin name is its dot-separated segments: 'windows.pslist.PsList'.
PsList   == <<"windows", "pslist", "PsList">>
CmdLine  == <<"windows", "cmdline", "CmdLine">>
Plugins  == {PsList, CmdLine}
NoPlugin == <<>>                      \* selectedPlugin === null

\* PID_PLUGINS, cut to its first two entries.
DllList     == <<"windows", "dlllist", "DllList">>
Handles     == <<"windows", "handles", "Handles">>
PID_PLUGINS == <<DllList, Handles>>
Pids        == {1, 2}
NoPid       == 0                      \* selectedPid === null

AnalysisIds == {"a1"}
None        == "null"                 \* analysisId === null
Undefined   == "undefined"            \* a missing optional field

JobStatus    == {"not_started", "running", "completed", "failed"}
Terminal     == {"completed", "failed"}

\* Sequences without repetition over a set (Array.from(new Set(...))).
RECURSIVE Perms(_)
Perms(S) ==
  IF S = {} THEN {<<>>}
  ELSE UNION {{<<x>> \o t : t \in Perms(S \ {x})} : x \in S}

BatchLists == UNION {Perms(S) : S \in (SUBSET Plugins) \ {{}}}

Range(s) == {s[i] : i \in DOMAIN s}

VARIABLES
  appState, analysisId, plugins, selectedPlugin, selectedPlugins,
  results, error, batchProgress, isBatchMode,
  activeTimers, effectTimer, pollers,
  net, jobs, runsIssued,
  selectedPid, pidResults, pidTimers, pidPollers, pidNet, pidJobs, pidRuns,
  projectMetadata, hasSymbols, isLoadingMetadata, presets, completedPlugins,
  selNet, selLoads,
  isUploadingSymbols, symbolJobId, symbolStatus, symTimer, symNet, symJob,
  symTimeouts, uploadSuccessCalls, formOpen,
  ctxAnalysisId, trackedPids, isLoading, ctxNet, serverTracked, ctxThrown,
  ctxOps,
  mounted

appVars == <<appState, analysisId, plugins, selectedPlugin, selectedPlugins,
             results, error, batchProgress, isBatchMode,
             activeTimers, effectTimer, pollers, net, jobs, runsIssued>>

pidVars == <<selectedPid, pidResults, pidTimers, pidPollers, pidNet, pidJobs,
             pidRuns>>

selVars == <<projectMetadata, hasSymbols, isLoadingMetadata, presets,
             completedPlugins, selNet, selLoads>>

symVars == <<isUploadingSymbols, symbolJobId, symbolStatus, symTimer, symNet,
             symJob, symTimeouts, uploadSuccessCalls, formOpen>>

ctxVars == <<ctxAnalysisId, trackedPids, isLoading, ctxNet, serverTracked,
             ctxThrown, ctxOps>>

vars == <<appVars, pidVars, selVars, symVars, ctxVars, mounted>>

\* ------------------------------------------------------- requests in flight
\* A response body, one shape for every endpoint (unused fields keep the
\* default).  map[p] = Undefined stands for "p is not a key of plugins".
NoVal ==
  [status |-> Undefined, error |-> Undefined,
   map |-> [p \in Plugins |-> Undefined]]

\* kind: "plugins" | "upload" | "run" | "runBatch" | "status" | "allStatus"
\*       | "resultsSingle" | "resultsBatch" | "resultsView"
\* g: the interval closure that awaits the response (0: a handler).
\* st: "pending" (not yet answered) | "ok" (resolved) | "err" (rejected).
\* A run or status request is answered in a step of its own, because the
\* answer depends on when the service handles it.  The answer to a result
\* fetch, a plugin list or an upload is fixed the moment it is delivered: a
\* completed job stays completed and keeps its rows.
Msg(kind, g, aid, plugin, list) ==
  [kind |-> kind, g |-> g, aid |-> aid, plugin |-> plugin, list |-> list,
   st |-> "pending", val |-> NoVal]

Send(n, m) == n (+) SetToBag({m})
Recv(n, m) == n (-) SetToBag({m})
InFlight(n) == BagCardinality(n)

\* The value an axios rejection carries, and `err instanceof Error ?
\* err.message : fallback`.
Rejection == [isError |-> TRUE, message |-> <<"Network Error">>]
ErrMessage(err, fallback) == IF err.isError THEN err.message ELSE fallback

\* ------------------------------------------------------------ the backend
\* The job store of the analysis service as the REST contract shows it.
\* The job store maps a job to its status.  What a plugin yields is fixed per
\* plugin: PsList completes with MaxRows rows and fails without an error
\* text, every other plugin completes with no rows and fails with a text.
RowCount(p) == IF p \in {PsList, DllList} THEN MaxRows ELSE 0
FailError(p) ==
  IF p \in {PsList, DllList} THEN Undefined ELSE "volatility exited 1"

\* POST .../run with force = false: starts a job that is not running and has
\* no result; RunAnalysisResponse.status is 'running' | 'completed'.
StartJob(status) ==
  IF status \in {"not_started", "failed"} THEN "running" ELSE status

\* The row array GET .../results/{plugin} returns for a completed job.
ResultRows(aid, p) ==
  [i \in 1..RowCount(p) |-> [analysis |-> aid, plugin |-> p, row |-> i]]

\* ------------------------------------------------------------- App: state
NoPoller ==
  [used |-> FALSE, aid |-> None, batch |-> FALSE, plugin |-> NoPlugin,
   list |-> <<>>, sawTerminal |-> FALSE, fetches |-> 0, signalled |-> FALSE]

NewPoller(aid, batch, plugin, list) ==
  [used |-> TRUE, aid |-> aid, batch |-> batch, plugin |-> plugin,
   list |-> list, sawTerminal |-> FALSE, fetches |-> 0, signalled |-> FALSE]

NoError == <<>>                       \* error === null
\* (The user-visible Czech messages are written without diacritics.)

InitApp ==
  /\ appState = "project-selection"
  /\ analysisId = None
  /\ plugins = {}
  /\ selectedPlugin = NoPlugin
  /\ selectedPlugins = <<>>
  /\ results = <<>>
  /\ error = NoError
  /\ batchProgress = <<>>
  /\ isBatchMode = FALSE
  /\ activeTimers = {}
  /\ effectTimer = 0
  /\ pollers = [g \in 1..MaxPollers |-> NoPoller]
  /\ net = EmptyBag
  /\ jobs = [a \in AnalysisIds |-> [p \in Plugins |-> "not_started"]]
  /\ runsIssued = 0

\* The cells of App state that the effects depend on.
Cur ==
  [appState |-> appState, analysisId |-> analysisId, plugins |-> plugins,
   selectedPlugin |-> selectedPlugin, selectedPlugins |-> selectedPlugins,
   isBatchMode |-> isBatchMode]

\* A callback that forgets clearInterval.
ClearIntervalNoop(timers, g) == timers

ClearInterval(timers, g) == timers \ {g}

\* A closure is dropped once its timer is cleared and none of its requests
\* is outstanding: nothing can run it again.
Collect(ps, timers, n) ==
  [g \in 1..MaxPollers |->
     IF g \in timers \/ (\E m \in BagToSet(n) : m.g = g) THEN ps[g]
     ELSE NoPoller]

\* A polling effect without the early return on appState.
PollModeAnyState(s) ==
  IF s.analysisId = None THEN "none"
  ELSE IF s.isBatchMode /\ Len(s.selectedPlugins) > 0 THEN "batch"
  ELSE IF s.selectedPlugin = NoPlugin THEN "none"
  ELSE "single"

\* Which interval the polling effect sets up for a render with state s:
\* "batch", "single" or "none" (the early returns).
PollMode(s) ==
  IF s.appState # "processing" \/ s.analysisId = None THEN "none"
  ELSE IF s.isBatchMode /\ Len(s.selectedPlugins) > 0 THEN "batch"
  ELSE IF s.selectedPlugin = NoPlugin THEN "none"
  ELSE "single"

\* loadPlugins effect, deps [appState].
PluginsEffect(s, n) ==
  IF s.appState # appState /\ s.appState = "plugin-selection" /\ s.plugins = {}
  THEN Send(n, Msg("plugins", 0, None, NoPlugin, <<>>))
  ELSE n

\* The render that follows a handler: s is the new state, refChanged tells
\* that selectedPlugins got a new array (a dependency change by identity),
\* timers0/pollers0/net0 are the timers, closures and requests the handler
\* left.  Runs the cleanup of the polling effect and the effect itself.
Commit(s, refChanged, timers0, pollers0, net0) ==
  LET depsChanged ==
        \/ refChanged
        \/ s.appState # appState
        \/ s.analysisId # analysisId
        \/ s.selectedPlugin # selectedPlugin
        \/ s.selectedPlugins # selectedPlugins
        \/ s.isBatchMode # isBatchMode
      net1    == PluginsEffect(s, net0)
      cleaned == ClearInterval(timers0, effectTimer)
      ps1     == Collect(pollers0, cleaned, net1)
      free    == {g \in 1..MaxPollers : ~ps1[g].used}
      mode    == PollMode(s)
  IN  /\ mounted = "App"
      /\ InFlight(net1) <= MaxInFlight
      /\ UNCHANGED <<pidVars, selVars, symVars, ctxVars, mounted>>
      /\ appState' = s.appState
      /\ analysisId' = s.analysisId
      /\ plugins' = s.plugins
      /\ selectedPlugin' = s.selectedPlugin
      /\ selectedPlugins' = s.selectedPlugins
      /\ isBatchMode' = s.isBatchMode
      /\ net' = net1
      /\ IF ~depsChanged
         THEN /\ activeTimers' = timers0
              /\ effectTimer' = effectTimer
              /\ pollers' = Collect(pollers0, timers0, net1)
         ELSE IF mode = "none"
         THEN /\ activeTimers' = cleaned
              /\ effectTimer' = 0
              /\ pollers' = ps1
         ELSE /\ free # {}
              /\ LET g == CHOOSE x \in free : \A y \in free : x <= y
                 IN  /\ activeTimers' = cleaned \cup {g}
                     /\ effectTimer' = g
                     /\ pollers' =
                          [ps1 EXCEPT ![g] =
                             IF mode = "batch"
                             THEN NewPoller(s.analysisId, TRUE, NoPlugin,
                                            s.selectedPlugins)
                             ELSE NewPoller(s.analysisId, FALSE,
                                            s.selectedPlugin, <<>>)]

\* A handler that touches neither timers nor closures nor requests.
CommitState(s, refChanged) == Commit(s, refChanged, activeTimers, pollers, net)

\* ------------------------------------------------- App: navigation handlers
HandleProjectSelect(id) ==
  /\ appState = "project-selection"
  /\ CommitState([Cur EXCEPT !.analysisId = id,
                             !.appState = "plugin-selection"], FALSE)
  /\ error' = NoError
  /\ UNCHANGED <<results, batchProgress, jobs, runsIssued>>

HandleCreateNewProject ==
  /\ appState = "project-selection"
  /\ CommitState([Cur EXCEPT !.appState = "upload"], FALSE)
  /\ UNCHANGED <<results, error, batchProgress, jobs, runsIssued>>

\* UploadForm starts an asynchronous step (upload, OS detection, symbol
\* generation) whose continuation calls onUploadSuccess or onError.
UploadFormStart ==
  /\ mounted = "App"
  /\ appState = "upload"
  /\ InFlight(net) < MaxInFlight
  /\ net' = Send(net, Msg("upload", 0, None, NoPlugin, <<>>))
  /\ UNCHANGED <<appState, analysisId, plugins, selectedPlugin,
                 selectedPlugins, results, error, batchProgress, isBatchMode,
                 activeTimers, effectTimer, pollers, jobs, runsIssued,
                 pidVars, selVars, symVars, ctxVars, mounted>>

\* onUploadSuccess(id), from a click in the form (m = none) or from a
\* continuation of the form.
HandleUploadSuccess(id, n) ==
  /\ Commit([Cur EXCEPT !.analysisId = id,
                        !.appState = "plugin-selection"], FALSE,
            activeTimers, pollers, n)
  /\ error' = NoError
  /\ UNCHANGED <<results, batchProgress, jobs, runsIssued>>

\* onError(message), likewise.
HandleError(errorMessage, n) ==
  /\ Commit([Cur EXCEPT !.appState = "error"], FALSE,
            activeTimers, pollers, n)
  /\ error' = errorMessage
  /\ UNCHANGED <<results, batchProgress, jobs, runsIssued>>

UploadFormContinue(id) ==
  /\ appState = "upload"
  /\ HandleUploadSuccess(id, net)

UploadFormNoFile ==
  /\ appState = "upload"
  /\ HandleError(<<"Prosim vyberte soubor">>, net)

UploadFormSucceeded(m, id) ==
  /\ m.kind = "upload"
  /\ HandleUploadSuccess(id, Recv(net, m))

UploadFormFailed(m) ==
  /\ m.kind = "upload"
  /\ HandleError(ErrMessage(Rejection, <<"Nahravani selhalo">>), Recv(net, m))

HandleBackToUpload ==
  /\ appState \in {"upload", "plugin-selection", "results", "error"}
  /\ CommitState([Cur EXCEPT !.appState = "project-selection",
                             !.analysisId = None,
                             !.selectedPlugin = NoPlugin,
                             !.selectedPlugins = <<>>,
                             !.plugins = {},
                             !.isBatchMode = FALSE], TRUE)
  /\ results' = <<>>
  /\ error' = NoError
  /\ batchProgress' = <<>>
  /\ UNCHANGED <<jobs, runsIssued>>

HandleBackToPluginSelection ==
  /\ appState = "results"
  /\ CommitState([Cur EXCEPT !.appState = "plugin-selection",
                             !.selectedPlugin = NoPlugin,
                             !.selectedPlugins = <<>>,
                             !.isBatchMode = FALSE], TRUE)
  /\ results' = <<>>
  /\ error' = NoError
  /\ batchProgress' = <<>>
  /\ UNCHANGED <<jobs, runsIssued>>

\* ---------------------------------------------------- App: run handlers
\* A handler that shows the processing view before the run request has
\* been answered.
HandlePluginSelectEager(plugin) ==
  /\ runsIssued < MaxRuns
  /\ runsIssued' = runsIssued + 1
  /\ appState = "plugin-selection"
  /\ plugin \in plugins
  /\ analysisId # None
  /\ Commit([Cur EXCEPT !.selectedPlugin = plugin, !.isBatchMode = FALSE,
                        !.appState = "processing"],
            FALSE, activeTimers, pollers,
            Send(net, Msg("run", 0, analysisId, plugin, <<>>)))
  /\ UNCHANGED <<results, error, batchProgress, jobs>>

\* PluginSelector is rendered in 'plugin-selection' and offers the plugins
\* of the loaded list; App passes no isAnalyzing.
HandlePluginSelect(plugin) ==
  /\ runsIssued < MaxRuns
  /\ runsIssued' = runsIssued + 1
  /\ appState = "plugin-selection"
  /\ plugin \in plugins
  /\ analysisId # None
  /\ Commit([Cur EXCEPT !.selectedPlugin = plugin, !.isBatchMode = FALSE],
            FALSE, activeTimers, pollers,
            Send(net, Msg("run", 0, analysisId, plugin, <<>>)))
  /\ UNCHANGED <<results, error, batchProgress, jobs>>

HandleBatchRun(pluginList) ==
  /\ runsIssued < MaxRuns
  /\ runsIssued' = runsIssued + 1
  /\ appState = "plugin-selection"
  /\ Range(pluginList) \subseteq plugins
  /\ analysisId # None /\ Len(pluginList) # 0
  /\ Commit([Cur EXCEPT !.selectedPlugins = pluginList, !.isBatchMode = TRUE],
            TRUE, activeTimers, pollers,
            Send(net, Msg("runBatch", 0, analysisId, NoPlugin, pluginList)))
  /\ batchProgress' =
       [i \in DOMAIN pluginList |->
          [plugin |-> pluginList[i], status |-> "not_started"]]
  /\ UNCHANGED <<results, error, jobs>>

\* await runAnalysis / runBatchAnalysis resolved.
RunResolved(m) ==
  /\ m.kind \in {"run", "runBatch"} /\ m.st = "ok"
  /\ Commit([Cur EXCEPT !.appState = "processing"], FALSE,
            activeTimers, pollers, Recv(net, m))
  /\ UNCHANGED <<results, error, batchProgress, jobs, runsIssued>>

RunRejected(m) ==
  /\ m.kind \in {"run", "runBatch"} /\ m.st = "err"
  /\ Commit([Cur EXCEPT !.appState = "error"], FALSE,
            activeTimers, pollers, Recv(net, m))
  /\ error' = ErrMessage(Rejection,
                 IF m.kind = "run" THEN <<"Chyba pri spusteni analyzy">>
                 ELSE <<"Chyba pri spusteni batch analyzy">>)
  /\ UNCHANGED <<results, batchProgress, jobs, runsIssued>>

\* loadPlugins continuation.
PluginsLoaded(m) ==
  /\ m.kind = "plugins"
  /\ Commit([Cur EXCEPT !.plugins = Plugins], FALSE,
            activeTimers, pollers, Recv(net, m))
  /\ UNCHANGED <<results, error, batchProgress, jobs, runsIssued>>

PluginsRejected(m) ==
  /\ m.kind = "plugins"
  /\ Commit([Cur EXCEPT !.appState = "error"], FALSE,
            activeTimers, pollers, Recv(net, m))
  /\ error' = ErrMessage(Rejection, <<"Chyba pri nacitani pluginu">>)
  /\ UNCHANGED <<results, batchProgress, jobs, runsIssued>>

\* ------------------------------------------------- App: the polling effect
\* selectedPlugin.split('.').pop()
LastSegment(plugin) == plugin[Len(plugin)]

\* x || fallback for an optional string.
OrElse(x, fallback) == IF x \in {Undefined, ""} THEN fallback ELSE x

\* A message that drops the server's error text.
PluginFailedMessageGeneric(plugin, err) ==
  <<"Plugin ", LastSegment(plugin), " selhal: ", "Neznama chyba">>

PluginFailedMessage(plugin, err) ==
  <<"Plugin ", LastSegment(plugin), " selhal: ", OrElse(err, "Neznama chyba")>>

AllFailedMessage == <<"Vsechny pluginy selhaly.">>

\* A poller that does not recognise 'completed'.
SingleDecisionNoCompleted(status) ==
  IF status = "failed" THEN "fail" ELSE "continue"

\* The branch the single poller takes on a status: lines 121-132.
SingleDecision(status) ==
  IF status = "completed" THEN "fetch"
  ELSE IF status = "failed" THEN "fail"
  ELSE "continue"

\* selectedPlugins.map(p => ({plugin: p, status: plugins[p] || 'not_started'}))
NewProgress(list, map) ==
  [i \in DOMAIN list |->
     [plugin |-> list[i], status |-> OrElse(map[list[i]], "not_started")]]

\* `some` in the place of `every`.
AllDoneSome(progress) ==
  \E i \in DOMAIN progress : progress[i].status \in {"completed", "failed"}

AllDone(progress) ==
  \A i \in DOMAIN progress : progress[i].status \in {"completed", "failed"}

\* find() with a predicate that accepts any terminal status.
FirstCompletedAnyTerminal(progress) ==
  LET idx == {i \in DOMAIN progress :
                progress[i].status \in {"completed", "failed"}}
  IN  IF idx = {} THEN NoPlugin
      ELSE progress[CHOOSE i \in idx : \A j \in idx : i <= j].plugin

\* The last completed member in the place of the first.
FirstCompletedLast(progress) ==
  LET idx == {i \in DOMAIN progress : progress[i].status = "completed"}
  IN  IF idx = {} THEN NoPlugin
      ELSE progress[CHOOSE i \in idx : \A j \in idx : i >= j].plugin

\* newProgress.find(p => p.status === 'completed'), NoPlugin for undefined.
FirstCompleted(progress) ==
  LET idx == {i \in DOMAIN progress : progress[i].status = "completed"}
  IN  IF idx = {} THEN NoPlugin
      ELSE progress[CHOOSE i \in idx : \A j \in idx : i <= j].plugin

\* An interval callback with an in-flight guard: it skips the tick while a
\* status request of the same interval is still outstanding.
TickGuarded(g) ==
  /\ mounted = "App"
  /\ g \in activeTimers
  /\ ~\E m \in BagToSet(net) : m.g = g /\ m.kind \in {"status", "allStatus"}
  /\ InFlight(net) < MaxInFlight
  /\ net' = Send(net,
              IF pollers[g].batch
              THEN Msg("allStatus", g, pollers[g].aid, NoPlugin, <<>>)
              ELSE Msg("status", g, pollers[g].aid, pollers[g].plugin, <<>>))
  /\ UNCHANGED <<appState, analysisId, plugins, selectedPlugin,
                 selectedPlugins, results, error, batchProgress, isBatchMode,
                 activeTimers, effectTimer, pollers, jobs, runsIssued,
                 pidVars, selVars, symVars, ctxVars, mounted>>

\* One firing of the interval callback up to its first await.
Tick(g) ==
  /\ mounted = "App"
  /\ g \in activeTimers
  /\ InFlight(net) < MaxInFlight
  /\ net' = Send(net,
              IF pollers[g].batch
              THEN Msg("allStatus", g, pollers[g].aid, NoPlugin, <<>>)
              ELSE Msg("status", g, pollers[g].aid, pollers[g].plugin, <<>>))
  /\ UNCHANGED <<appState, analysisId, plugins, selectedPlugin,
                 selectedPlugins, results, error, batchProgress, isBatchMode,
                 activeTimers, effectTimer, pollers, jobs, runsIssued,
                 pidVars, selVars, symVars, ctxVars, mounted>>

\* Single poller after `await checkPluginStatus` resolved.
StatusResolved(m) ==
  /\ m.kind = "status" /\ m.st = "ok"
  /\ LET g == m.g
         c == pollers[g]
         d == SingleDecision(m.val.status)
         \* history: the closure has seen a terminal status
         seen == [pollers EXCEPT ![g].sawTerminal =
                                   @ \/ m.val.status \in Terminal]
     IN  CASE d = "fetch" ->
                /\ Commit(Cur, FALSE, ClearInterval(activeTimers, g),
                          [seen EXCEPT ![g].fetches = @ + 1],
                          Send(Recv(net, m),
                               Msg("resultsSingle", g, c.aid, c.plugin, <<>>)))
                /\ UNCHANGED <<results, error, batchProgress, jobs, runsIssued>>
           [] d = "fail" ->
                /\ Commit([Cur EXCEPT !.appState = "error"], FALSE,
                          ClearInterval(activeTimers, g),
                          [seen EXCEPT ![g].signalled = TRUE],
                          Recv(net, m))
                /\ error' = PluginFailedMessage(c.plugin, m.val.error)
                /\ UNCHANGED <<results, batchProgress, jobs, runsIssued>>
           [] OTHER ->
                /\ Commit(Cur, FALSE, activeTimers, seen, Recv(net, m))
                /\ UNCHANGED <<results, error, batchProgress, jobs, runsIssued>>

\* Batch poller after `await checkAllStatus` resolved.
AllStatusResolved(m) ==
  /\ m.kind = "allStatus" /\ m.st = "ok"
  /\ LET g == m.g
         c == pollers[g]
         newProgress == NewProgress(c.list, m.val.map)
         firstCompleted == FirstCompleted(newProgress)
     IN  /\ batchProgress' = newProgress
         /\ IF ~AllDone(newProgress)
            THEN /\ Commit(Cur, FALSE, activeTimers, pollers, Recv(net, m))
                 /\ UNCHANGED <<results, error, jobs, runsIssued>>
            ELSE IF firstCompleted # NoPlugin
            THEN /\ Commit([Cur EXCEPT !.selectedPlugin = firstCompleted],
                           FALSE, ClearInterval(activeTimers, g),
                           [pollers EXCEPT ![g].sawTerminal = TRUE,
                                           ![g].fetches = @ + 1],
                           Send(Recv(net, m),
                                Msg("resultsBatch", g, c.aid, firstCompleted,
                                    <<>>)))
                 /\ UNCHANGED <<results, error, jobs, runsIssued>>
            ELSE /\ Commit([Cur EXCEPT !.appState = "error"], FALSE,
                           ClearInterval(activeTimers, g),
                           [pollers EXCEPT ![g].sawTerminal = TRUE,
                                           ![g].signalled = TRUE],
                           Recv(net, m))
                 /\ error' = AllFailedMessage
                 /\ UNCHANGED <<results, jobs, runsIssued>>

\* A result fetch that was cancelled together with its timer: the response
\* is dropped and nothing is written.
ResultsResolvedCancelled(m) ==
  /\ m.kind \in {"resultsSingle", "resultsBatch"}
  /\ jobs[m.aid][m.plugin] = "completed"
  /\ IF m.g \in activeTimers
     THEN /\ Commit([Cur EXCEPT !.appState = "results"], FALSE,
                    activeTimers, pollers, Recv(net, m))
          /\ results' = ResultRows(m.aid, m.plugin)
     ELSE /\ Commit(Cur, FALSE, activeTimers, pollers, Recv(net, m))
          /\ results' = results
  /\ UNCHANGED <<error, batchProgress, jobs, runsIssued>>

\* Either poller after `await getPluginResults` resolved.
ResultsResolved(m) ==
  /\ m.kind \in {"resultsSingle", "resultsBatch"}
  /\ jobs[m.aid][m.plugin] = "completed"
  /\ Commit([Cur EXCEPT !.appState = "results"], FALSE,
            activeTimers, pollers, Recv(net, m))
  /\ results' = ResultRows(m.aid, m.plugin)
  /\ UNCHANGED <<error, batchProgress, jobs, runsIssued>>

\* The catch of either interval callback: a rejected status query or a
\* rejected result fetch.
PollRejected(m) ==
  /\ \/ m.kind \in {"status", "allStatus"} /\ m.st = "err"
     \/ m.kind \in {"resultsSingle", "resultsBatch"}
  /\ Commit([Cur EXCEPT !.appState = "error"], FALSE,
            ClearInterval(activeTimers, m.g),
            [pollers EXCEPT ![m.g].signalled = TRUE],
            Recv(net, m))
  /\ error' = ErrMessage(Rejection, <<"Chyba pri kontrole stavu">>)
  /\ UNCHANGED <<results, batchProgress, jobs, runsIssued>>

\* ------------------------------------------------ App: the results view
\* A grid that never shows the empty state.
ResultsGridViewNoEmpty(data) == "grid"

\* What ResultsGrid renders for its data.
ResultsGridView(data) == IF Len(data) = 0 THEN "empty-state" ELSE "grid"

\* ------------------------------------------- App: batch results switcher
\* A switcher that filters on "terminal" in the place of "completed".
SwitcherOptionsAllTerminal ==
  LET done == {i \in DOMAIN batchProgress :
                 batchProgress[i].status \in {"completed", "failed"}}
  IN  IF appState = "results" /\ isBatchMode /\ Cardinality(done) > 1
      THEN {batchProgress[i].plugin : i \in done}
      ELSE {}

\* The options of the <select>, none when it is not rendered.
SwitcherOptions ==
  LET completed == {i \in DOMAIN batchProgress :
                      batchProgress[i].status = "completed"}
  IN  IF appState = "results" /\ isBatchMode /\ Cardinality(completed) > 1
      THEN {batchProgress[i].plugin : i \in completed}
      ELSE {}

HandleViewBatchResult(plugin) ==
  /\ plugin \in SwitcherOptions
  /\ plugin # selectedPlugin
  /\ analysisId # None
  /\ Commit([Cur EXCEPT !.selectedPlugin = plugin], FALSE,
            activeTimers, pollers,
            Send(net, Msg("resultsView", 0, analysisId, plugin, <<>>)))
  /\ UNCHANGED <<results, error, batchProgress, jobs, runsIssued>>

ViewResolved(m) ==
  /\ m.kind = "resultsView"
  /\ jobs[m.aid][m.plugin] = "completed"
  /\ Commit([Cur EXCEPT !.appState = "results"], FALSE,
            activeTimers, pollers, Recv(net, m))
  /\ results' = ResultRows(m.aid, m.plugin)
  /\ UNCHANGED <<error, batchProgress, jobs, runsIssued>>

ViewRejected(m) ==
  /\ m.kind = "resultsView"
  /\ Commit([Cur EXCEPT !.appState = "error"], FALSE,
            activeTimers, pollers, Recv(net, m))
  /\ error' = ErrMessage(Rejection, <<"Chyba pri nacitani vysledku">>)
  /\ UNCHANGED <<results, batchProgress, jobs, runsIssued>>

\* ----------------------------------------------- the backend and the wire
clientVars ==
  <<appState, analysisId, plugins, selectedPlugin, selectedPlugins, results,
    error, batchProgress, isBatchMode, activeTimers, effectTimer, pollers,
    runsIssued, pidVars, selVars, symVars, ctxVars, mounted>>

Answer(m, st, val) == [m EXCEPT !.st = st, !.val = val]
Reply(m, val) == net' = Send(Recv(net, m), Answer(m, "ok", val))

\* POST /api/v1/analysis/{id}/run
ServerRun(m) ==
  /\ mounted = "App"
  /\ m.kind = "run" /\ m.st = "pending"
  /\ jobs' = [jobs EXCEPT ![m.aid][m.plugin] = StartJob(@)]
  /\ Reply(m, NoVal)
  /\ UNCHANGED clientVars

\* POST /api/v1/analysis/{id}/run-batch: the service starts some of the
\* requested plugins (`started`) and skips the others (`skipped`).
ServerRunBatch(m) ==
  /\ mounted = "App"
  /\ m.kind = "runBatch" /\ m.st = "pending"
  /\ \E started \in SUBSET Range(m.list) :
       jobs' = [jobs EXCEPT ![m.aid] =
                  [p \in Plugins |->
                     IF p \in started THEN StartJob(@[p]) ELSE @[p]]]
  /\ Reply(m, NoVal)
  /\ UNCHANGED clientVars

\* GET /api/v1/analysis/{id}/status?plugin=
ServerStatus(m) ==
  /\ mounted = "App"
  /\ m.kind = "status" /\ m.st = "pending"
  /\ Reply(m, [NoVal EXCEPT
                  !.status = jobs[m.aid][m.plugin],
                  !.error = IF jobs[m.aid][m.plugin] = "failed"
                            THEN FailError(m.plugin) ELSE Undefined])
  /\ UNCHANGED <<clientVars, jobs>>

\* GET /api/v1/analysis/{id}/status: a job that was never started has no
\* entry in `plugins`.
ServerAllStatus(m) ==
  /\ mounted = "App"
  /\ m.kind = "allStatus" /\ m.st = "pending"
  /\ Reply(m, [NoVal EXCEPT !.map =
                  [p \in Plugins |->
                     IF jobs[m.aid][p] = "not_started" THEN Undefined
                     ELSE jobs[m.aid][p]]])
  /\ UNCHANGED <<clientVars, jobs>>

\* A run or status request that fails in transport.
NetFail(m) ==
  /\ mounted = "App"
  /\ m.kind \in {"run", "runBatch", "status", "allStatus"}
  /\ m.st = "pending"
  /\ net' = Send(Recv(net, m), Answer(m, "err", NoVal))
  /\ UNCHANGED <<clientVars, jobs>>

\* A running job ends, server side.
JobCompletes(a, p) ==
  /\ mounted = "App"
  /\ jobs[a][p] = "running"
  /\ jobs' = [jobs EXCEPT ![a][p] = "completed"]
  /\ UNCHANGED <<clientVars, net>>

JobFails(a, p) ==
  /\ mounted = "App"
  /\ jobs[a][p] = "running"
  /\ jobs' = [jobs EXCEPT ![a][p] = "failed"]
  /\ UNCHANGED <<clientVars, net>>

NextApp ==
  \/ \E id \in AnalysisIds : HandleProjectSelect(id)
  \/ HandleCreateNewProject
  \/ UploadFormStart
  \/ \E id \in AnalysisIds : UploadFormContinue(id)
  \/ UploadFormNoFile
  \/ \E m \in BagToSet(net), id \in AnalysisIds : UploadFormSucceeded(m, id)
  \/ \E m \in BagToSet(net) : UploadFormFailed(m)
  \/ HandleBackToUpload
  \/ HandleBackToPluginSelection
  \/ \E m \in BagToSet(net) : PluginsLoaded(m)
  \/ \E m \in BagToSet(net) : PluginsRejected(m)
  \/ \E p \in Plugins : HandlePluginSelect(p)
  \/ \E l \in BatchLists : HandleBatchRun(l)
  \/ \E m \in BagToSet(net) : RunResolved(m)
  \/ \E m \in BagToSet(net) : RunRejected(m)
  \/ \E g \in 1..MaxPollers : Tick(g)
  \/ \E m \in BagToSet(net) : StatusResolved(m)
  \/ \E m \in BagToSet(net) : AllStatusResolved(m)
  \/ \E m \in BagToSet(net) : ResultsResolved(m)
  \/ \E m \in BagToSet(net) : PollRejected(m)
  \/ \E p \in Plugins : HandleViewBatchResult(p)
  \/ \E m \in BagToSet(net) : ViewResolved(m)
  \/ \E m \in BagToSet(net) : ViewRejected(m)
  \/ \E m \in BagToSet(net) : ServerRun(m)
  \/ \E m \in BagToSet(net) : ServerRunBatch(m)
  \/ \E m \in BagToSet(net) : ServerStatus(m)
  \/ \E m \in BagToSet(net) : ServerAllStatus(m)
  \/ \E m \in BagToSet(net) : NetFail(m)
  \/ \E a \in AnalysisIds, p \in Plugins : JobCompletes(a, p)
  \/ \E a \in AnalysisIds, p \in Plugins : JobFails(a, p)

\* ------------------------------------------- ProcessInvestigation: state
PidKeys == Range(PID_PLUGINS)

\* pidResults[k] of a key that is not in the record.
NoResult == [status |-> "none", data |-> <<>>, error |-> Undefined]

NoPidPoller ==
  [used |-> FALSE, key |-> NoPlugin, pid |-> NoPid, sawTerminal |-> FALSE,
   fetches |-> 0, signalled |-> FALSE]

\* kind: "pidRun" | "pidStatus" | "pidResults" | "preload"
\* idx: the position of a preload in PID_PLUGINS.
PidMsg(kind, g, key, pid, idx) ==
  [kind |-> kind, g |-> g, key |-> key, pid |-> pid, idx |-> idx,
   st |-> "pending", val |-> NoVal]

PidRows(key, pid) ==
  [i \in 1..RowCount(key) |-> [pid |-> pid, plugin |-> key, row |-> i]]

InitPid ==
  /\ selectedPid = NoPid
  /\ pidResults = [k \in PidKeys |-> NoResult]
  /\ pidTimers = {}
  /\ pidPollers = [g \in 1..MaxPollers |-> NoPidPoller]
  /\ pidNet = EmptyBag
  /\ pidJobs = [q \in Pids |-> [k \in PidKeys |-> "not_started"]]
  /\ pidRuns = 0

PidFrame ==
  /\ mounted = "ProcessInvestigation"
  /\ UNCHANGED <<appVars, selVars, symVars, ctxVars, mounted>>

PidCollect(ps, timers, n) ==
  [g \in 1..MaxPollers |->
     IF g \in timers \/ (\E m \in BagToSet(n) : m.g = g) THEN ps[g]
     ELSE NoPidPoller]

\* An update without the spread of prev: {[key]: entry}.
SetPidResultNoSpread(prev, key, entry) ==
  [k \in DOMAIN prev |-> IF k = key THEN entry ELSE NoResult]

\* {...prev, [key]: entry}
SetPidResult(prev, key, entry) == [prev EXCEPT ![key] = entry]

\* ---------------------------------------- ProcessInvestigation: handlers
\* A click on a process in the tree, the timeline or the watchlist.  The
\* loadExisting effect (deps [selectedPid, analysisId]) starts its loop when
\* the pid changed.
HandleSelectProcess(pid) ==
  /\ PidFrame
  /\ selectedPid' = pid
  /\ pidResults' = [k \in PidKeys |-> NoResult]
  /\ pidNet' = IF pid # selectedPid
               THEN Send(pidNet, PidMsg("preload", 0, PID_PLUGINS[1], pid, 1))
               ELSE pidNet
  /\ InFlight(pidNet') <= MaxInFlight
  /\ UNCHANGED <<pidTimers, pidPollers, pidJobs, pidRuns>>

\* loadExisting after one `await getPluginResultsForPid`: the entry is set
\* for a non-empty array, and the loop goes on to the next plugin.
PreloadNext(m, n) ==
  IF m.idx < Len(PID_PLUGINS)
  THEN Send(n, PidMsg("preload", 0, PID_PLUGINS[m.idx + 1], m.pid, m.idx + 1))
  ELSE n

PreloadResolved(m) ==
  /\ PidFrame
  /\ m.kind = "preload"
  /\ pidJobs[m.pid][m.key] = "completed"
  /\ pidResults' =
       IF Len(PidRows(m.key, m.pid)) > 0
       THEN SetPidResult(pidResults, m.key,
              [status |-> "completed", data |-> PidRows(m.key, m.pid),
               error |-> Undefined])
       ELSE pidResults
  /\ pidNet' = PreloadNext(m, Recv(pidNet, m))
  /\ UNCHANGED <<selectedPid, pidTimers, pidPollers, pidJobs, pidRuns>>

PreloadRejected(m) ==
  /\ PidFrame
  /\ m.kind = "preload"
  /\ pidNet' = PreloadNext(m, Recv(pidNet, m))
  /\ UNCHANGED <<selectedPid, pidResults, pidTimers, pidPollers, pidJobs,
                 pidRuns>>

\* What PerPidPluginView renders for an entry of pidResults.
PerPidPluginView(result) ==
  IF result.status \in {"none", "idle"} THEN "prompt"
  ELSE IF result.status = "running" THEN "spinner"
  ELSE IF result.status = "failed" THEN "failed"
  ELSE IF Len(result.data) = 0 THEN "no-data"
  ELSE "table"

\* The views of PerPidPluginView that hold a button wired to onRun.
RunButtonViews == {"prompt", "failed", "table"}

HandleRunForPid(pluginKey) ==
  /\ PidFrame
  /\ selectedPid # NoPid
  /\ PerPidPluginView(pidResults[pluginKey]) \in RunButtonViews
  /\ pidRuns < MaxRuns
  /\ InFlight(pidNet) < MaxInFlight
  /\ pidRuns' = pidRuns + 1
  /\ pidResults' = SetPidResult(pidResults, pluginKey,
                      [status |-> "running", data |-> <<>>,
                       error |-> Undefined])
  /\ pidNet' = Send(pidNet, PidMsg("pidRun", 0, pluginKey, selectedPid, 0))
  /\ UNCHANGED <<selectedPid, pidTimers, pidPollers, pidJobs>>

\* `await runAnalysisForPid` resolved: setInterval.
PidRunResolved(m) ==
  /\ PidFrame
  /\ m.kind = "pidRun" /\ m.st = "ok"
  /\ LET n1   == Recv(pidNet, m)
         ps1  == PidCollect(pidPollers, pidTimers, n1)
         free == {g \in 1..MaxPollers : ~ps1[g].used}
     IN  /\ free # {}
         /\ LET g == CHOOSE x \in free : \A y \in free : x <= y
            IN  /\ pidTimers' = pidTimers \cup {g}
                /\ pidPollers' =
                     [ps1 EXCEPT ![g] =
                        [used |-> TRUE, key |-> m.key, pid |-> m.pid,
                         sawTerminal |-> FALSE, fetches |-> 0,
                         signalled |-> FALSE]]
         /\ pidNet' = n1
  /\ UNCHANGED <<selectedPid, pidResults, pidJobs, pidRuns>>

\* err?.message || 'Failed to start'
PidRunRejected(m) ==
  /\ PidFrame
  /\ m.kind = "pidRun" /\ m.st = "err"
  /\ pidResults' = SetPidResult(pidResults, m.key,
                      [status |-> "failed", data |-> <<>>,
                       error |-> OrElse(Rejection.message[1],
                                        "Failed to start")])
  /\ pidNet' = Recv(pidNet, m)
  /\ pidPollers' = PidCollect(pidPollers, pidTimers, pidNet')
  /\ UNCHANGED <<selectedPid, pidTimers, pidJobs, pidRuns>>

PidTick(g) ==
  /\ PidFrame
  /\ g \in pidTimers
  /\ InFlight(pidNet) < MaxInFlight
  /\ pidNet' = Send(pidNet, PidMsg("pidStatus", g, pidPollers[g].key,
                                   pidPollers[g].pid, 0))
  /\ UNCHANGED <<selectedPid, pidResults, pidTimers, pidPollers, pidJobs,
                 pidRuns>>

\* A per-PID poller without the 'failed' branch.
PidDecisionIgnoresFailed(status) ==
  IF status = "completed" THEN "fetch" ELSE "continue"

\* The branch the per-PID poller takes on a status: lines 89-102.
PidDecision(status) ==
  IF status = "completed" THEN "fetch"
  ELSE IF status = "failed" THEN "fail"
  ELSE "continue"

\* Per-PID poller after `await checkPluginStatusForPid` resolved.
PidStatusResolved(m) ==
  /\ PidFrame
  /\ m.kind = "pidStatus" /\ m.st = "ok"
  /\ LET g == m.g
         c == pidPollers[g]
         d == PidDecision(m.val.status)
         \* history: the closure has seen a terminal status
         seen == [pidPollers EXCEPT ![g].sawTerminal =
                                      @ \/ m.val.status \in Terminal]
     IN  CASE d = "fetch" ->
                /\ pidTimers' = ClearInterval(pidTimers, g)
                /\ pidNet' = Send(Recv(pidNet, m),
                                  PidMsg("pidResults", g, c.key, c.pid, 0))
                /\ pidPollers' =
                     PidCollect([seen EXCEPT ![g].fetches = @ + 1],
                                pidTimers', pidNet')
                /\ UNCHANGED pidResults
           [] d = "fail" ->
                /\ pidTimers' = ClearInterval(pidTimers, g)
                /\ pidNet' = Recv(pidNet, m)
                /\ pidPollers' =
                     PidCollect([seen EXCEPT ![g].signalled = TRUE],
                                pidTimers', pidNet')
                /\ pidResults' = SetPidResult(pidResults, c.key,
                                    [status |-> "failed", data |-> <<>>,
                                     error |-> m.val.error])
           [] OTHER ->
                /\ pidNet' = Recv(pidNet, m)
                /\ pidPollers' = PidCollect(seen, pidTimers, pidNet')
                /\ UNCHANGED <<pidTimers, pidResults>>
  /\ UNCHANGED <<selectedPid, pidJobs, pidRuns>>

\* Per-PID poller after `await getPluginResultsForPid` resolved.
PidResultsResolved(m) ==
  /\ PidFrame
  /\ m.kind = "pidResults"
  /\ pidJobs[m.pid][m.key] = "completed"
  /\ pidResults' = SetPidResult(pidResults, m.key,
                      [status |-> "completed", data |-> PidRows(m.key, m.pid),
                       error |-> Undefined])
  /\ pidNet' = Recv(pidNet, m)
  /\ pidPollers' = PidCollect(pidPollers, pidTimers, pidNet')
  /\ UNCHANGED <<selectedPid, pidTimers, pidJobs, pidRuns>>

\* The catch of the interval callback.
PidPollRejected(m) ==
  /\ PidFrame
  /\ \/ m.kind = "pidStatus" /\ m.st = "err"
     \/ m.kind = "pidResults"
  /\ pidTimers' = ClearInterval(pidTimers, m.g)
  /\ pidNet' = Recv(pidNet, m)
  /\ pidPollers' = PidCollect([pidPollers EXCEPT ![m.g].signalled = TRUE],
                              pidTimers', pidNet')
  /\ pidResults' = SetPidResult(pidResults, pidPollers[m.g].key,
                      [status |-> "failed", data |-> <<>>,
                       error |-> "Status check failed"])
  /\ UNCHANGED <<selectedPid, pidJobs, pidRuns>>

\* ------------------------------------- the backend, PID-scoped requests
pidClientVars == <<selectedPid, pidResults, pidTimers, pidPollers, pidRuns>>

PidReply(m, st, val) ==
  pidNet' = Send(Recv(pidNet, m), [m EXCEPT !.st = st, !.val = val])

\* POST /api/v1/analysis/{id}/run with a pid
ServerPidRun(m) ==
  /\ PidFrame
  /\ m.kind = "pidRun" /\ m.st = "pending"
  /\ pidJobs' = [pidJobs EXCEPT ![m.pid][m.key] = StartJob(@)]
  /\ PidReply(m, "ok", NoVal)
  /\ UNCHANGED pidClientVars

\* GET /api/v1/analysis/{id}/status?plugin=&pid=
ServerPidStatus(m) ==
  /\ PidFrame
  /\ m.kind = "pidStatus" /\ m.st = "pending"
  /\ PidReply(m, "ok",
              [NoVal EXCEPT
                 !.status = pidJobs[m.pid][m.key],
                 !.error = IF pidJobs[m.pid][m.key] = "failed"
                           THEN FailError(m.key) ELSE Undefined])
  /\ UNCHANGED <<pidClientVars, pidJobs>>

PidNetFail(m) ==
  /\ PidFrame
  /\ m.kind \in {"pidRun", "pidStatus"} /\ m.st = "pending"
  /\ PidReply(m, "err", NoVal)
  /\ UNCHANGED <<pidClientVars, pidJobs>>

PidJobCompletes(q, k) ==
  /\ PidFrame
  /\ pidJobs[q][k] = "running"
  /\ pidJobs' = [pidJobs EXCEPT ![q][k] = "completed"]
  /\ UNCHANGED <<pidClientVars, pidNet>>

PidJobFails(q, k) ==
  /\ PidFrame
  /\ pidJobs[q][k] = "running"
  /\ pidJobs' = [pidJobs EXCEPT ![q][k] = "failed"]
  /\ UNCHANGED <<pidClientVars, pidNet>>

NextPid ==
  \/ \E q \in Pids : HandleSelectProcess(q)
  \/ \E m \in BagToSet(pidNet) : PreloadResolved(m)
  \/ \E m \in BagToSet(pidNet) : PreloadRejected(m)
  \/ \E k \in PidKeys : HandleRunForPid(k)
  \/ \E m \in BagToSet(pidNet) : PidRunResolved(m)
  \/ \E m \in BagToSet(pidNet) : PidRunRejected(m)
  \/ \E g \in 1..MaxPollers : PidTick(g)
  \/ \E m \in BagToSet(pidNet) : PidStatusResolved(m)
  \/ \E m \in BagToSet(pidNet) : PidResultsResolved(m)
  \/ \E m \in BagToSet(pidNet) : PidPollRejected(m)
  \/ \E m \in BagToSet(pidNet) : ServerPidRun(m)
  \/ \E m \in BagToSet(pidNet) : ServerPidStatus(m)
  \/ \E m \in BagToSet(pidNet) : PidNetFail(m)
  \/ \E q \in Pids, k \in PidKeys : PidJobCompletes(q, k)
  \/ \E q \in Pids, k \in PidKeys : PidJobFails(q, k)

\* ---------------------------------------- PluginSelector: loadMetadata
\* PluginSelector on its own: the state cells loadMetadata writes, and the
\* chain of requests of each run of the effect (deps [analysisId]).
Metadatas  == {[os_type |-> "linux"], [os_type |-> "windows"]}
PresetMaps == {{"quick_triage"}, {"quick_triage", "malware_hunt"}}
StatusMaps == [Plugins -> {"running", "completed"}]
\* projectMetadata before a load has set it (null)
NoMetadata == [os_type |-> None]

\* One awaited request of a loadMetadata run; os is metadata.os_type once
\* the run holds its metadata.
SelMsg(kind, os) == [kind |-> kind, os |-> os]

InitSel ==
  /\ projectMetadata = NoMetadata
  /\ hasSymbols = FALSE
  /\ isLoadingMetadata = TRUE
  /\ presets = {}
  /\ completedPlugins = {}
  /\ selNet = EmptyBag
  /\ selLoads = 0

SelFrame ==
  /\ mounted = "PluginSelector"
  /\ UNCHANGED <<appVars, pidVars, symVars, ctxVars, mounted>>

\* loadMetadata without the inner try/catch: every rejection ends the run.
MetaNextNoInnerCatch(step, os, ok) ==
  IF ~ok THEN "done"
  ELSE IF step = "getProjectInfo" THEN "getPluginPresets"
  ELSE IF step = "getPluginPresets" THEN "checkAllStatus"
  ELSE IF step = "checkAllStatus" /\ os = "linux" THEN "getSymbols"
  ELSE "done"

\* The request loadMetadata awaits after `step` resolved (ok) or was
\* rejected, "done" for the finally block.
MetaNext(step, os, ok) ==
  IF step = "getProjectInfo"
  THEN IF ok THEN "getPluginPresets" ELSE "done"
  ELSE IF step = "getPluginPresets" THEN "checkAllStatus"
  ELSE IF step = "checkAllStatus"
  THEN IF os = "linux" THEN "getSymbols" ELSE "done"
  ELSE "done"

\* The run goes on to `next`; the finally block ends the loading flag.
MetaContinue(m, os, next) ==
  /\ selNet' = IF next = "done" THEN Recv(selNet, m)
               ELSE Send(Recv(selNet, m), SelMsg(next, os))
  /\ isLoadingMetadata' = IF next = "done" THEN FALSE ELSE isLoadingMetadata

\* The effect runs: on mount, and when the analysisId prop changes.
LoadMetadataEffect ==
  /\ SelFrame
  /\ selLoads < MaxLoads
  /\ selLoads' = selLoads + 1
  /\ selNet' = Send(selNet, SelMsg("getProjectInfo", Undefined))
  /\ UNCHANGED <<projectMetadata, hasSymbols, isLoadingMetadata, presets,
                 completedPlugins>>

ProjectInfoResolved(m, metadata) ==
  /\ SelFrame
  /\ m.kind = "getProjectInfo"
  /\ projectMetadata' = metadata
  /\ MetaContinue(m, metadata.os_type,
                  MetaNext(m.kind, metadata.os_type, TRUE))
  /\ UNCHANGED <<hasSymbols, presets, completedPlugins, selLoads>>

PresetsResolved(m, presetsData) ==
  /\ SelFrame
  /\ m.kind = "getPluginPresets"
  /\ presets' = presetsData
  /\ MetaContinue(m, m.os, MetaNext(m.kind, m.os, TRUE))
  /\ UNCHANGED <<projectMetadata, hasSymbols, completedPlugins, selLoads>>

\* completed = the names whose status is 'completed'
AllStatusLoaded(m, statusData) ==
  /\ SelFrame
  /\ m.kind = "checkAllStatus"
  /\ completedPlugins' = {p \in DOMAIN statusData :
                            statusData[p] = "completed"}
  /\ MetaContinue(m, m.os, MetaNext(m.kind, m.os, TRUE))
  /\ UNCHANGED <<projectMetadata, hasSymbols, presets, selLoads>>

\* setHasSymbols(symbols.length > 0)
SymbolsResolved(m, nSymbols) ==
  /\ SelFrame
  /\ m.kind = "getSymbols"
  /\ hasSymbols' = (nSymbols > 0)
  /\ MetaContinue(m, m.os, MetaNext(m.kind, m.os, TRUE))
  /\ UNCHANGED <<projectMetadata, presets, completedPlugins, selLoads>>

\* Any of the four requests is rejected: an inner catch, or the outer catch
\* (console.error) and the finally block.
MetaRejected(m) ==
  /\ SelFrame
  /\ MetaContinue(m, m.os, MetaNext(m.kind, m.os, FALSE))
  /\ UNCHANGED <<projectMetadata, hasSymbols, presets, completedPlugins,
                 selLoads>>

NextSel ==
  \/ LoadMetadataEffect
  \/ \E m \in BagToSet(selNet), md \in Metadatas : ProjectInfoResolved(m, md)
  \/ \E m \in BagToSet(selNet), pr \in PresetMaps : PresetsResolved(m, pr)
  \/ \E m \in BagToSet(selNet), sm \in StatusMaps : AllStatusLoaded(m, sm)
  \/ \E m \in BagToSet(selNet), n \in {0, 1} : SymbolsResolved(m, n)
  \/ \E m \in BagToSet(selNet) : MetaRejected(m)

\* ------------------------------------- UploadForm: symbol generation
\* UploadForm on its own, from the project configuration view: the dump is
\* uploaded (uploadResponse is set), selectedOS is 'linux' and a vmlinux
\* file is chosen.
NoJobId == "null"
SymbolJobIds == {"j1"}
SymbolJobStatus == {"pending", "processing", "completed", "failed"}

\* kind: "uploadVmlinux" | "getSymbolJobStatus"
SymMsg(kind) ==
  [kind |-> kind, st |-> "pending", status |-> Undefined, error |-> Undefined]

InitSym ==
  /\ isUploadingSymbols = FALSE
  /\ symbolJobId = NoJobId
  /\ symbolStatus = <<>>
  /\ symTimer = FALSE
  /\ symNet = EmptyBag
  /\ symJob = "none"
  /\ symTimeouts = 0
  /\ uploadSuccessCalls = 0
  /\ formOpen = TRUE

SymFrame ==
  /\ mounted = "UploadForm"
  /\ UNCHANGED <<appVars, pidVars, selVars, ctxVars, mounted>>

\* Which of the views UploadForm returns once uploadResponse is set.
UploadFormView(uploading, jobId) ==
  IF uploading \/ jobId # NoJobId THEN "symbol-progress"
  ELSE "configuration"

\* The button 'Nahrat vmlinux a generovat symboly'.
HandleVmlinuxUpload ==
  /\ SymFrame
  /\ formOpen
  /\ UploadFormView(isUploadingSymbols, symbolJobId) = "configuration"
  /\ isUploadingSymbols' = TRUE
  /\ symbolStatus' = <<"Uploading vmlinux...">>
  /\ symNet' = Send(symNet, SymMsg("uploadVmlinux"))
  /\ UNCHANGED <<symbolJobId, symTimer, symJob, symTimeouts,
                 uploadSuccessCalls, formOpen>>

\* The button 'Pokracovat bez symbolu': onUploadSuccess, and App replaces
\* the form by the plugin selection.
ContinueWithoutSymbols ==
  /\ SymFrame
  /\ formOpen
  /\ UploadFormView(isUploadingSymbols, symbolJobId) = "configuration"
  /\ uploadSuccessCalls' = uploadSuccessCalls + 1
  /\ formOpen' = FALSE
  /\ UNCHANGED <<isUploadingSymbols, symbolJobId, symbolStatus, symTimer,
                 symNet, symJob, symTimeouts>>

\* `await uploadVmlinux` resolved: the job id is kept and the interval set.
VmlinuxUploaded(m) ==
  /\ SymFrame
  /\ m.kind = "uploadVmlinux" /\ m.st = "ok"
  /\ \E id \in SymbolJobIds : symbolJobId' = id
  /\ symbolStatus' = <<"Generovani ISF symbolu...", m.status>>
  /\ symTimer' = TRUE
  /\ symNet' = Recv(symNet, m)
  /\ UNCHANGED <<isUploadingSymbols, symJob, symTimeouts, uploadSuccessCalls,
                 formOpen>>

\* The outer catch: onError (App shows the error view) and
\* setIsUploadingSymbols(false).
VmlinuxUploadRejected(m) ==
  /\ SymFrame
  /\ m.kind = "uploadVmlinux" /\ m.st = "err"
  /\ isUploadingSymbols' = FALSE
  /\ formOpen' = FALSE
  /\ symNet' = Recv(symNet, m)
  /\ UNCHANGED <<symbolJobId, symbolStatus, symTimer, symJob, symTimeouts,
                 uploadSuccessCalls>>

\* One firing of the 3 s interval up to its await.
SymTick ==
  /\ SymFrame
  /\ symTimer
  /\ InFlight(symNet) < MaxInFlight
  /\ symNet' = Send(symNet, SymMsg("getSymbolJobStatus"))
  /\ UNCHANGED <<isUploadingSymbols, symbolJobId, symbolStatus, symTimer,
                 symJob, symTimeouts, uploadSuccessCalls, formOpen>>

\* The interval callback after `await getSymbolJobStatus` resolved.
SymStatusResolved(m) ==
  /\ SymFrame
  /\ m.kind = "getSymbolJobStatus" /\ m.st = "ok"
  /\ symNet' = Recv(symNet, m)
  /\ IF m.status = "completed"
     THEN /\ symTimer' = FALSE
          /\ symbolStatus' = <<"Symboly uspesne vygenerovany!">>
          /\ symTimeouts' = symTimeouts + 1
          /\ UNCHANGED isUploadingSymbols
     ELSE IF m.status = "failed"
     THEN /\ symTimer' = FALSE
          /\ symbolStatus' = <<"Chyba: ", m.error>>
          /\ isUploadingSymbols' = FALSE
          /\ UNCHANGED symTimeouts
     ELSE /\ symbolStatus' = <<"Stav: ", m.status>>
          /\ UNCHANGED <<symTimer, isUploadingSymbols, symTimeouts>>
  /\ UNCHANGED <<symbolJobId, symJob, uploadSuccessCalls, formOpen>>

\* The catch of the interval callback.
SymStatusRejected(m) ==
  /\ SymFrame
  /\ m.kind = "getSymbolJobStatus" /\ m.st = "err"
  /\ symNet' = Recv(symNet, m)
  /\ symTimer' = FALSE
  /\ symbolStatus' = <<"Chyba pri kontrole statusu">>
  /\ isUploadingSymbols' = FALSE
  /\ UNCHANGED <<symbolJobId, symJob, symTimeouts, uploadSuccessCalls,
                 formOpen>>

\* setTimeout(() => onUploadSuccess(uploadResponse.analysis_id), 1500)
SymTimeoutFires ==
  /\ SymFrame
  /\ symTimeouts > 0
  /\ symTimeouts' = symTimeouts - 1
  /\ uploadSuccessCalls' = uploadSuccessCalls + 1
  /\ formOpen' = FALSE
  /\ UNCHANGED <<isUploadingSymbols, symbolJobId, symbolStatus, symTimer,
                 symNet, symJob>>

symClientVars == <<isUploadingSymbols, symbolJobId, symbolStatus, symTimer,
                   symTimeouts, uploadSuccessCalls, formOpen>>

\* POST /api/v1/symbols/upload-vmlinux: a job is created.
ServerUploadVmlinux(m) ==
  /\ SymFrame
  /\ m.kind = "uploadVmlinux" /\ m.st = "pending"
  /\ symJob' = "pending"
  /\ symNet' = Send(Recv(symNet, m),
                    [m EXCEPT !.st = "ok", !.status = "pending"])
  /\ UNCHANGED symClientVars

\* GET /api/v1/symbols/job/{id}
ServerSymbolJob(m) ==
  /\ SymFrame
  /\ m.kind = "getSymbolJobStatus" /\ m.st = "pending"
  /\ symNet' = Send(Recv(symNet, m),
                    [m EXCEPT !.st = "ok", !.status = symJob,
                              !.error = IF symJob = "failed"
                                        THEN "dwarf2json exited 1"
                                        ELSE Undefined])
  /\ UNCHANGED <<symClientVars, symJob>>

SymNetFail(m) ==
  /\ SymFrame
  /\ m.st = "pending"
  /\ symNet' = Send(Recv(symNet, m), [m EXCEPT !.st = "err"])
  /\ UNCHANGED <<symClientVars, symJob>>

\* The symbol job moves on, server side.
SymJobAdvances(to) ==
  /\ SymFrame
  /\ \/ symJob = "pending" /\ to = "processing"
     \/ symJob = "processing" /\ to \in {"completed", "failed"}
  /\ symJob' = to
  /\ UNCHANGED <<symClientVars, symNet>>

NextSym ==
  \/ HandleVmlinuxUpload
  \/ ContinueWithoutSymbols
  \/ \E m \in BagToSet(symNet) : VmlinuxUploaded(m)
  \/ \E m \in BagToSet(symNet) : VmlinuxUploadRejected(m)
  \/ SymTick
  \/ \E m \in BagToSet(symNet) : SymStatusResolved(m)
  \/ \E m \in BagToSet(symNet) : SymStatusRejected(m)
  \/ SymTimeoutFires
  \/ \E m \in BagToSet(symNet) : ServerUploadVmlinux(m)
  \/ \E m \in BagToSet(symNet) : ServerSymbolJob(m)
  \/ \E m \in BagToSet(symNet) : SymNetFail(m)
  \/ \E to \in SymbolJobStatus : SymJobAdvances(to)

\* ------------------------------------------------ InvestigationProvider
CtxIds == {"a1", "a2"}
Mutations == {"trackPid", "untrackPid", "updateTrackedPid"}

\* kind: "getTrackedPids" | "trackPid" | "untrackPid" | "updateTrackedPid"
\* aid: the analysisId captured by the callback that issued the request.
\* val: response.tracked_pids, the pids tracked for aid when answered.
CtxMsg(kind, aid, pid) ==
  [kind |-> kind, aid |-> aid, pid |-> pid, st |-> "pending", val |-> {}]

\* A TrackedProcess[] as the service returns it for one analysis.
TrackedList(aid, pidSet) == {[analysis |-> aid, pid |-> q] : q \in pidSet}

\* The service tracks one process for each analysis at the start.
InitCtx ==
  /\ ctxAnalysisId = None
  /\ trackedPids = {}
  /\ isLoading = FALSE
  /\ ctxNet = EmptyBag
  /\ serverTracked = [a \in CtxIds |-> IF a = "a1" THEN {1} ELSE {2}]
  /\ ctxThrown = 0
  /\ ctxOps = 0

\* ctxOps counts the operations invoked, ctxThrown the rejections that
\* reached a caller.
CtxFrame ==
  /\ mounted = "InvestigationProvider"
  /\ UNCHANGED <<appVars, pidVars, selVars, symVars, mounted>>

CtxInvoke ==
  /\ CtxFrame
  /\ ctxOps < MaxOps
  /\ ctxOps' = ctxOps + 1

\* refreshTrackedPids of the callback that captured aid, up to its await.
RefreshStart(aid) ==
  /\ isLoading' = TRUE
  /\ ctxNet' = Send(ctxNet, CtxMsg("getTrackedPids", aid, NoPid))

\* setAnalysisId(id) with a new value, and the effect that follows.
SetAnalysisId(id) ==
  /\ CtxInvoke
  /\ id # ctxAnalysisId
  /\ ctxAnalysisId' = id
  /\ IF id # None
     THEN /\ InFlight(ctxNet) < MaxInFlight
          /\ RefreshStart(id)
          /\ UNCHANGED trackedPids
     ELSE /\ trackedPids' = {}
          /\ UNCHANGED <<isLoading, ctxNet>>
  /\ UNCHANGED <<serverTracked, ctxThrown>>

\* refreshTrackedPids called by a consumer.
RefreshTrackedPids ==
  /\ CtxInvoke
  /\ IF ctxAnalysisId = None
     THEN UNCHANGED <<isLoading, ctxNet>>
     ELSE /\ InFlight(ctxNet) < MaxInFlight
          /\ RefreshStart(ctxAnalysisId)
  /\ UNCHANGED <<ctxAnalysisId, trackedPids, serverTracked, ctxThrown>>

\* addTrackedPid / removeTrackedPid / updatePidFn up to the first await.
Mutate(kind, pid) ==
  /\ CtxInvoke
  /\ IF ctxAnalysisId = None
     THEN UNCHANGED ctxNet
     ELSE /\ InFlight(ctxNet) < MaxInFlight
          /\ ctxNet' = Send(ctxNet, CtxMsg(kind, ctxAnalysisId, pid))
  /\ UNCHANGED <<ctxAnalysisId, trackedPids, isLoading, serverTracked,
                 ctxThrown>>

AddTrackedPid(pid)    == Mutate("trackPid", pid)
RemoveTrackedPid(pid) == Mutate("untrackPid", pid)
UpdatePidFn(pid)      == Mutate("updateTrackedPid", pid)

\* `await getTrackedPids` resolved: setTrackedPids, finally setIsLoading.
TrackedPidsResolved(m) ==
  /\ CtxFrame
  /\ m.kind = "getTrackedPids" /\ m.st = "ok"
  /\ trackedPids' = TrackedList(m.aid, m.val)
  /\ isLoading' = FALSE
  /\ ctxNet' = Recv(ctxNet, m)
  /\ UNCHANGED <<ctxAnalysisId, serverTracked, ctxThrown, ctxOps>>

\* `await getTrackedPids` rejected: the list is kept.
TrackedPidsRejected(m) ==
  /\ CtxFrame
  /\ m.kind = "getTrackedPids" /\ m.st = "err"
  /\ isLoading' = FALSE
  /\ ctxNet' = Recv(ctxNet, m)
  /\ UNCHANGED <<ctxAnalysisId, trackedPids, serverTracked, ctxThrown,
                 ctxOps>>

\* The mutating request resolved: `await refreshTrackedPids()`.
MutationResolved(m) ==
  /\ CtxFrame
  /\ m.kind \in Mutations /\ m.st = "ok"
  /\ isLoading' = TRUE
  /\ ctxNet' = Send(Recv(ctxNet, m), CtxMsg("getTrackedPids", m.aid, NoPid))
  /\ UNCHANGED <<ctxAnalysisId, trackedPids, serverTracked, ctxThrown,
                 ctxOps>>

\* A mutating operation written with try/finally: it refreshes after a
\* rejection too and swallows the rejection.
MutationRejectedRefreshes(m) ==
  /\ CtxFrame
  /\ m.kind \in Mutations /\ m.st = "err"
  /\ isLoading' = TRUE
  /\ ctxNet' = Send(Recv(ctxNet, m), CtxMsg("getTrackedPids", m.aid, NoPid))
  /\ UNCHANGED <<ctxAnalysisId, trackedPids, serverTracked, ctxThrown,
                 ctxOps>>

\* The mutating request rejected: no catch, the caller gets the rejection.
MutationRejected(m) ==
  /\ CtxFrame
  /\ m.kind \in Mutations /\ m.st = "err"
  /\ ctxThrown' = ctxThrown + 1
  /\ ctxNet' = Recv(ctxNet, m)
  /\ UNCHANGED <<ctxAnalysisId, trackedPids, isLoading, serverTracked,
                 ctxOps>>

ctxClientVars == <<ctxAnalysisId, trackedPids, isLoading, ctxThrown, ctxOps>>

\* GET /api/v1/analysis/{id}/tracked-pids
ServerGetTracked(m) ==
  /\ CtxFrame
  /\ m.kind = "getTrackedPids" /\ m.st = "pending"
  /\ ctxNet' = Send(Recv(ctxNet, m),
                    [m EXCEPT !.st = "ok", !.val = serverTracked[m.aid]])
  /\ UNCHANGED <<ctxClientVars, serverTracked>>

\* POST, DELETE and PATCH on /api/v1/analysis/{id}/tracked-pids
ServerMutate(m) ==
  /\ CtxFrame
  /\ m.kind \in Mutations /\ m.st = "pending"
  /\ serverTracked' =
       [serverTracked EXCEPT ![m.aid] =
          IF m.kind = "trackPid" THEN @ \cup {m.pid}
          ELSE IF m.kind = "untrackPid" THEN @ \ {m.pid}
          ELSE @]
  /\ ctxNet' = Send(Recv(ctxNet, m), [m EXCEPT !.st = "ok"])
  /\ UNCHANGED ctxClientVars

CtxNetFail(m) ==
  /\ CtxFrame
  /\ m.st = "pending"
  /\ ctxNet' = Send(Recv(ctxNet, m), [m EXCEPT !.st = "err"])
  /\ UNCHANGED <<ctxClientVars, serverTracked>>

NextCtx ==
  \/ \E id \in CtxIds \cup {None} : SetAnalysisId(id)
  \/ RefreshTrackedPids
  \/ \E q \in Pids : AddTrackedPid(q)
  \/ \E q \in Pids : RemoveTrackedPid(q)
  \/ \E q \in Pids : UpdatePidFn(q)
  \/ \E m \in BagToSet(ctxNet) : TrackedPidsResolved(m)
  \/ \E m \in BagToSet(ctxNet) : TrackedPidsRejected(m)
  \/ \E m \in BagToSet(ctxNet) : MutationResolved(m)
  \/ \E m \in BagToSet(ctxNet) : MutationRejected(m)
  \/ \E m \in BagToSet(ctxNet) : ServerGetTracked(m)
  \/ \E m \in BagToSet(ctxNet) : ServerMutate(m)
  \/ \E m \in BagToSet(ctxNet) : CtxNetFail(m)

\* ------------------------------------------------------- specifications
Init ==
  /\ InitApp /\ InitPid /\ InitSel /\ InitSym /\ InitCtx
  /\ mounted \in {"App", "ProcessInvestigation"}
InitAppMounted == Init /\ mounted = "App"
InitPidMounted == Init /\ mounted = "ProcessInvestigation"
InitSelMounted ==
  /\ InitApp /\ InitPid /\ InitSel /\ InitSym /\ InitCtx
  /\ mounted = "PluginSelector"
InitCtxMounted ==
  /\ InitApp /\ InitPid /\ InitSel /\ InitSym /\ InitCtx
  /\ mounted = "InvestigationProvider"
InitSymMounted ==
  /\ InitApp /\ InitPid /\ InitSel /\ InitSym /\ InitCtx
  /\ mounted = "UploadForm"

\* App alone, ProcessInvestigation alone, and either of the two: the
\* components share no state, a behaviour exercises one of them.
SpecApp == InitAppMounted /\ [][NextApp]_vars
SpecPid == InitPidMounted /\ [][NextPid]_vars
SpecSel == InitSelMounted /\ [][NextSel]_vars
SpecSym == InitSymMounted /\ [][NextSym]_vars
SpecCtx == InitCtxMounted /\ [][NextCtx]_vars
Next == NextApp \/ NextPid
Spec == Init /\ [][Next]_vars

\* A batch run with nobody navigating and every request answered
\* successfully: the user opens a project and starts a batch, the service
\* starts some of the members, the poller ticks.
NextBatchRun ==
  \/ \E id \in AnalysisIds : HandleProjectSelect(id)
  \/ \E m \in BagToSet(net) : PluginsLoaded(m)
  \/ \E l \in BatchLists : HandleBatchRun(l)
  \/ \E m \in BagToSet(net) : ServerRunBatch(m)
  \/ \E m \in BagToSet(net) : RunResolved(m)
  \/ \E g \in 1..MaxPollers : Tick(g)
  \/ \E m \in BagToSet(net) : ServerAllStatus(m)
  \/ \E m \in BagToSet(net) : AllStatusResolved(m)
  \/ \E m \in BagToSet(net) : ResultsResolved(m)
  \/ \E a \in AnalysisIds, p \in Plugins : JobCompletes(a, p)
  \/ \E a \in AnalysisIds, p \in Plugins : JobFails(a, p)

\* Fair ticks (setInterval keeps firing), fair answers and fair delivery of
\* responses (every awaited promise settles), and every running job ends.
FairBatchRun ==
  /\ WF_vars(\E g \in 1..MaxPollers : Tick(g))
  /\ WF_vars(\E m \in BagToSet(net) : ServerRunBatch(m))
  /\ WF_vars(\E m \in BagToSet(net) : ServerAllStatus(m))
  /\ WF_vars(\E m \in BagToSet(net) : PluginsLoaded(m))
  /\ WF_vars(\E m \in BagToSet(net) : RunResolved(m))
  /\ WF_vars(\E m \in BagToSet(net) : AllStatusResolved(m))
  /\ WF_vars(\E m \in BagToSet(net) : ResultsResolved(m))
  /\ WF_vars(\E a \in AnalysisIds, p \in Plugins :
               JobCompletes(a, p) \/ JobFails(a, p))

SpecBatchLive == InitAppMounted /\ [][NextBatchRun]_vars /\ FairBatchRun

\* ================================================================ claims
\* Requests in n that a tick of App closure g issued; result fetches of
\* closure g; status requests of per-PID closure g.
TickRequests(n, g) ==
  BagCardinality(
    [m \in {x \in BagToSet(n) : x.g = g /\ x.kind \in {"status", "allStatus"}}
       |-> CopiesIn(m, n)])
ResultFetches(n, g) ==
  BagCardinality(
    [m \in {x \in BagToSet(n) :
              x.g = g /\ x.kind \in {"resultsSingle", "resultsBatch"}}
       |-> CopiesIn(m, n)])
PidTickRequests(n, g) ==
  BagCardinality(
    [m \in {x \in BagToSet(n) : x.g = g /\ x.kind = "pidStatus"}
       |-> CopiesIn(m, n)])

PollerIds == 1..MaxPollers

\* ------------------------------------------------------------------ C1
\* C1: a single-plugin poller of App, and a per-PID poller of
\* ProcessInvestigation, that has observed `completed` or `failed` in a
\* status response has no timer any more and issues no further status
\* request.
C1_NoStatusRequestAfterTerminal ==
  [][ /\ \A g \in PollerIds :
           (pollers[g].used /\ ~pollers[g].batch /\ pollers[g].sawTerminal)
             => /\ g \notin activeTimers
                /\ TickRequests(net', g) <= TickRequests(net, g)
      /\ \A g \in PollerIds :
           (pidPollers[g].used /\ pidPollers[g].sawTerminal)
             => /\ g \notin pidTimers
                /\ PidTickRequests(pidNet', g) <= PidTickRequests(pidNet, g)
    ]_vars

\* A poller that saw a terminal status while the response to an earlier
\* tick of its own is still outstanding.
C1_WitnessApp ==
  \E g \in PollerIds :
    /\ pollers[g].used /\ ~pollers[g].batch /\ pollers[g].sawTerminal
    /\ TickRequests(net, g) > 0
C1_WitnessPid ==
  \E g \in PollerIds :
    /\ pidPollers[g].used /\ pidPollers[g].sawTerminal
    /\ PidTickRequests(pidNet, g) > 0
C1_Witness == C1_WitnessApp \/ C1_WitnessPid

\* ------------------------------------------------------------------ C2
\* C2: a single-plugin poller fetches the result set at most once, also
\* when a tick fires while an earlier status request is in flight.
C2_FetchesExactlyOnce ==
  \A g \in PollerIds :
    (pollers[g].used /\ ~pollers[g].batch) => pollers[g].fetches <= 1

C4_RejectionStopsPoller ==
  [][ /\ \A m \in BagToSet(net) :
           PollRejected(m)
             => /\ m.g \notin activeTimers'
                /\ appState' = "error"
                /\ error' # NoError
      /\ \A m \in BagToSet(pidNet) :
           PidPollRejected(m)
             => /\ m.g \notin pidTimers'
                /\ pidResults'[pidPollers[m.g].key].status = "failed"
                /\ pidResults'[pidPollers[m.g].key].error # Undefined
      /\ \A g \in PollerIds :
           (pollers[g].used /\ pollers[g].signalled)
             => /\ g \notin activeTimers
                /\ TickRequests(net', g) <= TickRequests(net, g)
      /\ \A g \in PollerIds :
           (pidPollers[g].used /\ pidPollers[g].signalled)
             => /\ g \notin pidTimers
                /\ PidTickRequests(pidNet', g) <= PidTickRequests(pidNet, g)
    ]_vars

\* A transport error is shown while a response to another tick of the
\* poller that signalled it is still outstanding.
C4_WitnessApp ==
  \E g \in PollerIds :
    /\ pollers[g].used /\ pollers[g].signalled
    /\ appState = "error" /\ error = Rejection.message
    /\ TickRequests(net, g) > 0
C4_WitnessPid ==
  \E g \in PollerIds :
    /\ pidPollers[g].used /\ pidPollers[g].signalled
    /\ pidResults[pidPollers[g].key].error = "Status check failed"
    /\ PidTickRequests(pidNet, g) > 0
C4_Witness == C4_WitnessApp \/ C4_WitnessPid

\* ------------------------------------------------------------------ C5
\* C5: once a poller instance has signalled a failure, no later response
\* of that instance changes the failure outcome: App stays in 'error' with
\* the same message, the pidResults entry stays as it is.
C5_FailureIsTerminal ==
  [][ /\ \A m \in BagToSet(net) :
           (/\ m.g \in PollerIds
            /\ pollers[m.g].signalled
            /\ appState = "error"
            /\ \/ StatusResolved(m)
               \/ AllStatusResolved(m)
               \/ ResultsResolved(m)
               \/ PollRejected(m))
             => (appState' = "error" /\ error' = error)
      /\ \A m \in BagToSet(pidNet) :
           (/\ m.g \in PollerIds
            /\ pidPollers[m.g].signalled
            /\ pidResults[pidPollers[m.g].key].status = "failed"
            /\ \/ PidStatusResolved(m)
               \/ PidResultsResolved(m)
               \/ PidPollRejected(m))
             => pidResults' = pidResults
    ]_vars

\* ------------------------------------------------------ batch: C6 - C9
\* What a status map says of the members of a caller's list.
ObservedTerminal(list, map) ==
  \A i \in DOMAIN list : map[list[i]] \in Terminal
ObservedCompleted(list, map) ==
  {i \in DOMAIN list : map[list[i]] = "completed"}

\* ------------------------------------------------------------------ C6
\* C6: the step in which the batch poller receives a status map in which a
\* member of its list is running, not started or absent changes neither
\* its timer nor appState, error and selectedPlugin and issues no fetch;
\* the poller's timer is cleared only by a map in which every member is
\* completed or failed.
C6_ResolvesOnlyWhenAllTerminal ==
  [][ \A m \in BagToSet(net) :
        AllStatusResolved(m)
          => IF ObservedTerminal(pollers[m.g].list, m.val.map)
             THEN m.g \notin activeTimers'
             ELSE /\ (m.g \in activeTimers') = (m.g \in activeTimers)
                  /\ appState' = appState
                  /\ error' = error
                  /\ selectedPlugin' = selectedPlugin
                  /\ ResultFetches(net', m.g) = ResultFetches(net, m.g)
    ]_vars

\* The second member of the list is completed, the first still runs, and
\* the batch poller goes on.
C6_Witness ==
  /\ appState = "processing" /\ isBatchMode
  /\ Len(batchProgress) = 2
  /\ batchProgress[1].status = "running"
  /\ batchProgress[2].status = "completed"
  /\ effectTimer \in activeTimers
  /\ pollers[effectTimer].batch
  /\ \A m \in BagToSet(net) : m.kind # "resultsBatch"

\* ------------------------------------------------------------------ C7
\* C7: the step in which the batch poller receives a status map puts App
\* in 'error' with "Vsechny pluginy selhaly." if and only if the map has
\* every member of the list terminal and none completed.  (Steps that
\* start with that very outcome shown are left out: they cannot show it
\* being signalled.)
C7_AggregateFailureIff ==
  [][ \A m \in BagToSet(net) :
        (AllStatusResolved(m)
         /\ ~(appState = "error" /\ error = <<"Vsechny pluginy selhaly.">>))
          => ((appState' = "error" /\ error' = <<"Vsechny pluginy selhaly.">>)
              <=> (/\ ObservedTerminal(pollers[m.g].list, m.val.map)
                   /\ ObservedCompleted(pollers[m.g].list, m.val.map) = {}))
    ]_vars

\* A batch of two, both failed: the aggregate failure is shown.
C7_Witness ==
  /\ appState = "error" /\ error = <<"Vsechny pluginy selhaly.">>
  /\ isBatchMode
  /\ Len(batchProgress) = 2
  /\ \A i \in DOMAIN batchProgress : batchProgress[i].status = "failed"

\* ------------------------------------------------------------------ C8
\* C8: the step in which the batch poller receives a status map with every
\* member terminal and one completed sets selectedPlugin to the completed
\* member with the least index in the list the caller passed and issues one
\* result fetch, for that member; the rows shown when a batch fetch
\* resolves are the rows of the member fetched.
C8_FirstCompletedInCallerOrder ==
  [][ /\ \A m \in BagToSet(net) :
           (/\ AllStatusResolved(m)
            /\ ObservedTerminal(pollers[m.g].list, m.val.map)
            /\ ObservedCompleted(pollers[m.g].list, m.val.map) # {})
             => LET c     == pollers[m.g]
                    idx   == ObservedCompleted(c.list, m.val.map)
                    first == c.list[CHOOSE i \in idx : \A j \in idx : i <= j]
                    fetch == Msg("resultsBatch", m.g, c.aid, first, <<>>)
                IN  /\ selectedPlugin' = first
                    /\ CopiesIn(fetch, net') = CopiesIn(fetch, net) + 1
                    /\ ResultFetches(net', m.g) = ResultFetches(net, m.g) + 1
      /\ \A m \in BagToSet(net) :
           (m.kind = "resultsBatch" /\ ResultsResolved(m))
             => /\ appState' = "results"
                /\ Len(results') = RowCount(m.plugin)
                /\ \A i \in DOMAIN results' : results'[i].plugin = m.plugin
    ]_vars

\* The first member of the list failed, the second is the one fetched.
C8_Witness ==
  \E m \in BagToSet(net) :
    /\ m.kind = "resultsBatch"
    /\ Len(pollers[m.g].list) = 2
    /\ pollers[m.g].list[2] = m.plugin
    /\ selectedPlugin = m.plugin
    /\ Len(batchProgress) = 2
    /\ batchProgress[1].status = "failed"
    /\ batchProgress[2].status = "completed"

\* ------------------------------------------------------------------ C9
\* The members batchProgress holds with a status.
Members(status) ==
  {batchProgress[i].plugin :
     i \in {j \in DOMAIN batchProgress : batchProgress[j].status = status}}

PartialSuccess ==
  /\ appState = "results" /\ isBatchMode
  /\ Members("completed") # {} /\ Members("failed") # {}
  /\ \A i \in DOMAIN batchProgress : batchProgress[i].status \in Terminal

C10_ClientStatusMonotonic ==
  [][ /\ \A m \in BagToSet(net) :
           (runsIssued = 1 /\ AllStatusResolved(m))
             => \A i \in DOMAIN batchProgress :
                  (/\ batchProgress[i].status \in Terminal
                   /\ i \in DOMAIN batchProgress'
                   /\ batchProgress'[i].plugin = batchProgress[i].plugin)
                    => batchProgress'[i].status = batchProgress[i].status
      /\ \A m \in BagToSet(pidNet) :
           (/\ pidRuns = 1
            /\ \/ PidStatusResolved(m)
               \/ PidResultsResolved(m)
               \/ PidPollRejected(m))
             => \A k \in PidKeys :
                  pidResults[k].status \in Terminal
                    => pidResults'[k].status = pidResults[k].status
    ]_vars

\* ----------------------------------------------------------------- C11
\* A run request for job (aid, p) that has not been resumed by the client.
RunOutstanding(aid, p) ==
  \E m \in BagToSet(net) :
    /\ m.aid = aid
    /\ \/ m.kind = "run" /\ m.plugin = p
       \/ m.kind = "runBatch" /\ p \in Range(m.list)
PidRunOutstanding(q, k) ==
  \E m \in BagToSet(pidNet) : m.kind = "pidRun" /\ m.pid = q /\ m.key = k

\* C11: no trigger submits a run for a job whose earlier run request is
\* still outstanding or whose job is running: not the single-plugin run,
\* not the batch run, not the per-PID run.
C11_NoDoubleSubmit ==
  [][ /\ \A p \in Plugins :
           HandlePluginSelect(p)
             => /\ ~RunOutstanding(analysisId, p)
                /\ jobs[analysisId][p] # "running"
      /\ \A l \in BatchLists :
           HandleBatchRun(l)
             => \A i \in DOMAIN l :
                  /\ ~RunOutstanding(analysisId, l[i])
                  /\ jobs[analysisId][l[i]] # "running"
      /\ \A k \in PidKeys :
           HandleRunForPid(k)
             => /\ ~PidRunOutstanding(selectedPid, k)
                /\ pidJobs[selectedPid][k] # "running"
    ]_vars

\* ----------------------------------------------------------------- C12
\* C12: every update the run handler or the poller of plugin key k makes
\* (running, completed, failed) leaves the pidResults entry of every other
\* key as it is.
C12_PidPollersIndependent ==
  [][ /\ \A k \in PidKeys :
           HandleRunForPid(k)
             => \A o \in PidKeys \ {k} : pidResults'[o] = pidResults[o]
      /\ \A m \in BagToSet(pidNet) :
           (\/ PidRunResolved(m)
            \/ PidRunRejected(m)
            \/ PidStatusResolved(m)
            \/ PidResultsResolved(m)
            \/ PidPollRejected(m))
             => \A o \in PidKeys \ {m.key} : pidResults'[o] = pidResults[o]
    ]_vars

\* Two pollers of different keys are alive; the one of DllList has failed
\* its entry and the entry of Handles is still 'running'.
C12_Witness ==
  /\ pidResults[DllList].status = "failed"
  /\ pidResults[DllList].error = "Status check failed"
  /\ pidResults[Handles].status = "running"
  /\ \E g \in pidTimers : pidPollers[g].key = Handles
  /\ \E g \in PollerIds : pidPollers[g].used /\ pidPollers[g].key = DllList

\* ----------------------------------------------------------------- C13
\* C13: the step in which a poller receives an empty result set is a
\* success: the single poller enters 'results' with no rows, leaves error
\* as it is and the grid shows its empty state; the per-PID poller records
\* 'completed' with an empty data array, shown as "no data".
C13_EmptyResultIsSuccess ==
  [][ /\ \A m \in BagToSet(net) :
           (/\ m.kind = "resultsSingle"
            /\ ResultsResolved(m)
            /\ Len(ResultRows(m.aid, m.plugin)) = 0)
             => /\ appState' = "results"
                /\ results' = <<>>
                /\ error' = error
                /\ ResultsGridView(results') = "empty-state"
      /\ \A m \in BagToSet(pidNet) :
           (/\ PidResultsResolved(m)
            /\ Len(PidRows(m.key, m.pid)) = 0)
             => /\ pidResults'[m.key].status = "completed"
                /\ pidResults'[m.key].data = <<>>
                /\ pidResults'[m.key].error = Undefined
                /\ PerPidPluginView(pidResults'[m.key]) = "no-data"
    ]_vars

\* CmdLine completed without rows and its (empty) results are shown; the
\* per-PID Handles entry is completed without rows.
C13_WitnessApp ==
  /\ appState = "results" /\ ~isBatchMode
  /\ selectedPlugin = CmdLine
  /\ results = <<>> /\ error = NoError
C13_WitnessPid ==
  /\ pidResults[Handles].status = "completed"
  /\ pidResults[Handles].data = <<>>
C13_Witness == C13_WitnessApp \/ C13_WitnessPid

\* C14: in PluginSelector's metadata load a rejected request for presets,
\* for the completed-plugin status or for symbol availability is swallowed:
\* presets, completedPlugins and hasSymbols keep their prior values, the
\* metadata already loaded is kept, nothing reaches the parent (its error
\* and appState are untouched), the load goes on with the next request where
\* the code has one, and otherwise isLoadingMetadata becomes false.
C14_OptionalFailureSwallowed ==
  [][ \A m \in BagToSet(selNet) :
        (/\ m.kind \in {"getPluginPresets", "checkAllStatus", "getSymbols"}
         /\ MetaRejected(m))
        => /\ presets' = presets
           /\ completedPlugins' = completedPlugins
           /\ hasSymbols' = hasSymbols
           /\ projectMetadata' = projectMetadata
           /\ projectMetadata # NoMetadata
           /\ error' = error /\ appState' = appState
           /\ m.kind = "getPluginPresets"
                => CopiesIn(SelMsg("checkAllStatus", m.os), selNet')
                     = CopiesIn(SelMsg("checkAllStatus", m.os), selNet) + 1
           /\ (m.kind = "checkAllStatus" /\ m.os = "linux")
                => CopiesIn(SelMsg("getSymbols", m.os), selNet')
                     = CopiesIn(SelMsg("getSymbols", m.os), selNet) + 1
           /\ (m.kind = "getSymbols"
               \/ (m.kind = "checkAllStatus" /\ m.os # "linux"))
                => isLoadingMetadata' = FALSE ]_vars

\* Every run of the load has ended, metadata is loaded, and no presets
\* request ever resolved: the presets request of a run was rejected.
C14_Witness ==
  /\ selLoads > 0 /\ selNet = EmptyBag
  /\ projectMetadata # NoMetadata
  /\ presets = {}
  /\ isLoadingMetadata = FALSE

\* C15: handleBackToPluginSelection resets selectedPlugin, selectedPlugins,
\* results, error, isBatchMode and batchProgress and leaves analysisId and
\* plugins as they were; handleBackToUpload resets those cells and also
\* analysisId and plugins; after either handler no polling timer is active.
C15_NavigationTearsDown ==
  [][ /\ HandleBackToPluginSelection
           => /\ appState' = "plugin-selection"
              /\ selectedPlugin' = NoPlugin /\ selectedPlugins' = <<>>
              /\ results' = <<>> /\ error' = NoError
              /\ isBatchMode' = FALSE /\ batchProgress' = <<>>
              /\ analysisId' = analysisId /\ plugins' = plugins
              /\ activeTimers' = {}
      /\ HandleBackToUpload
           => /\ appState' = "project-selection"
              /\ selectedPlugin' = NoPlugin /\ selectedPlugins' = <<>>
              /\ results' = <<>> /\ error' = NoError
              /\ isBatchMode' = FALSE /\ batchProgress' = <<>>
              /\ analysisId' = None /\ plugins' = {}
              /\ activeTimers' = {} ]_vars

\* Back at the plugin selection after a run, with the analysis and its
\* plugin list kept and a request of the run still outstanding.
C15_WitnessBack ==
  /\ appState = "plugin-selection" /\ runsIssued > 0
  /\ analysisId # None /\ plugins # {}
  /\ selectedPlugin = NoPlugin /\ results = <<>> /\ activeTimers = {}
  /\ \E m \in BagToSet(net) : m.kind \in {"status", "allStatus"}

\* Back at the project list after a run.
C15_WitnessUpload ==
  /\ appState = "project-selection" /\ runsIssued > 0
  /\ analysisId = None /\ plugins = {} /\ activeTimers = {}

C15_Witness == C15_WitnessBack \/ C15_WitnessUpload

\* C16: a poll tick is not held back by an earlier request of the same
\* poller: whenever a poller's timer is active its tick can fire and issue
\* one more status request, however many of its status requests are still
\* outstanding (up to the bound on requests in flight); so two outstanding
\* status requests of one poller for one job are reachable.
C16_TickNeverWaits ==
  \A g \in PollerIds :
    (g \in activeTimers /\ InFlight(net) < MaxInFlight) => ENABLED Tick(g)

\* Two status requests of the same single-plugin poller, for the same job,
\* both not yet answered.
C16_Witness ==
  \E g \in PollerIds :
    /\ g \in activeTimers
    /\ \E m \in BagToSet(net) :
         /\ m.g = g /\ m.kind = "status" /\ m.st = "pending"
         /\ m.aid = pollers[g].aid /\ m.plugin = pollers[g].plugin
         /\ CopiesIn(m, net) >= 2

\* C17: a response whose timer is already cleared is processed like any
\* other.  For a request of an App poller whose timer is no longer active:
\* a resolved result fetch writes results and appState = 'results', a
\* rejection writes error and appState = 'error', a 'failed' status writes
\* the failure, a 'completed' status starts a result fetch, and a batch
\* status writes batchProgress.  For a request of a per-PID poller whose
\* timer is no longer active: a resolved result fetch, a rejection and a
\* 'failed' status each write the plugin's entry of pidResults.
C17_LateResponsesStillWrite ==
  [][ /\ \A m \in BagToSet(net) :
           (m.g \in PollerIds /\ m.g \notin activeTimers)
           => /\ ResultsResolved(m)
                   => /\ appState' = "results"
                      /\ results' = ResultRows(m.aid, m.plugin)
              /\ PollRejected(m)
                   => /\ appState' = "error"
                      /\ error' = <<"Network Error">>
              /\ (StatusResolved(m) /\ m.val.status = "failed")
                   => /\ appState' = "error"
                      /\ error' = PluginFailedMessage(m.plugin, m.val.error)
              /\ (StatusResolved(m) /\ m.val.status = "completed")
                   => ResultFetches(net', m.g) = ResultFetches(net, m.g) + 1
              /\ AllStatusResolved(m)
                   => batchProgress' = NewProgress(pollers[m.g].list, m.val.map)
      /\ \A m \in BagToSet(pidNet) :
           (m.g \in PollerIds /\ m.g \notin pidTimers)
           => /\ PidResultsResolved(m)
                   => /\ pidResults'[m.key].status = "completed"
                      /\ pidResults'[m.key].data = PidRows(m.key, m.pid)
              /\ PidPollRejected(m)
                   => /\ pidResults'[m.key].status = "failed"
                      /\ pidResults'[m.key].error = "Status check failed"
              /\ (PidStatusResolved(m) /\ m.val.status = "failed")
                   => /\ pidResults'[m.key].status = "failed"
                      /\ pidResults'[m.key].error = m.val.error ]_vars

\* The results view is shown again after handleBackToPluginSelection or
\* handleBackToUpload reset selectedPlugin: a response that was in flight at
\* the teardown wrote appState.
C17_WitnessApp ==
  /\ appState = "results" /\ selectedPlugin = NoPlugin

\* A plugin's entry is 'failed' by a rejected poll although the process was
\* selected anew after the run and no timer is active: the rejection was
\* delivered after handleSelectProcess reset pidResults.
C17_WitnessPid ==
  /\ pidTimers = {} /\ pidNet = EmptyBag
  /\ \E k \in PidKeys :
       /\ pidResults[k].status = "failed"
       /\ pidResults[k].error = "Status check failed"
       /\ pidJobs[selectedPid][k] = "not_started"

C17_Witness == C17_WitnessApp \/ C17_WitnessPid

PidResultFetches(n, g) ==
  BagCardinality(
    [m \in {x \in BagToSet(n) : x.g = g /\ x.kind = "pidResults"}
       |-> CopiesIn(m, n)])

\* What a poller does with one status response, as seen from outside: d is
\* its decision, wasActive/isActive tell whether its timer is active before
\* and after, newFetches is the number of result fetches it issued, failed
\* tells that it wrote the failure, wrote that it wrote anything at all.
PollerStep(d, wasActive, isActive, newFetches, failed, wrote) ==
  CASE d = "fetch"    -> ~isActive /\ newFetches = 1 /\ ~wrote
    [] d = "fail"     -> ~isActive /\ newFetches = 0 /\ failed
    [] d = "continue" -> isActive = wasActive /\ newFetches = 0 /\ ~wrote

\* C18: the per-PID poller and the single-job poller decide alike.  On every
\* status the two take the same branch (continue on not_started/running,
\* fetch on completed, fail on failed), and on each side a status response
\* has the effect of that branch: 'completed' clears the timer and issues
\* one result fetch, 'failed' clears the timer and writes the failure
\* without a fetch, any other status changes nothing; a resolved result
\* fetch writes the success; a rejected request clears the timer and writes
\* the failure without a fetch.
C18_PidPollerIsSinglePoller ==
  [][ /\ \A s \in JobStatus : PidDecision(s) = SingleDecision(s)
      /\ \A m \in BagToSet(net) :
           /\ StatusResolved(m)
                => PollerStep(SingleDecision(m.val.status),
                     m.g \in activeTimers, m.g \in activeTimers',
                     ResultFetches(net', m.g) - ResultFetches(net, m.g),
                     appState' = "error"
                       /\ error' = PluginFailedMessage(m.plugin, m.val.error),
                     <<appState, results, error>>'
                       # <<appState, results, error>>)
           /\ (m.kind = "resultsSingle" /\ ResultsResolved(m))
                => /\ appState' = "results"
                   /\ results' = ResultRows(m.aid, m.plugin)
                   /\ ResultFetches(net', m.g) = ResultFetches(net, m.g) - 1
           /\ (m.kind \in {"status", "resultsSingle"} /\ PollRejected(m))
                => /\ m.g \notin activeTimers'
                   /\ appState' = "error"
                   /\ ResultFetches(net', m.g) <= ResultFetches(net, m.g)
      /\ \A m \in BagToSet(pidNet) :
           /\ PidStatusResolved(m)
                => PollerStep(PidDecision(m.val.status),
                     m.g \in pidTimers, m.g \in pidTimers',
                     PidResultFetches(pidNet', m.g)
                       - PidResultFetches(pidNet, m.g),
                     pidResults'[m.key].status = "failed"
                       /\ pidResults'[m.key].error = m.val.error,
                     pidResults' # pidResults)
           /\ PidResultsResolved(m)
                => /\ pidResults'[m.key].status = "completed"
                   /\ pidResults'[m.key].data = PidRows(m.key, m.pid)
                   /\ PidResultFetches(pidNet', m.g)
                        = PidResultFetches(pidNet, m.g) - 1
           /\ PidPollRejected(m)
                => /\ m.g \notin pidTimers'
                   /\ pidResults'[m.key].status = "failed"
                   /\ PidResultFetches(pidNet', m.g)
                        <= PidResultFetches(pidNet, m.g) ]_vars

\* A single-job poller that observed 'completed': timer cleared, its one
\* result fetch outstanding.
C18_WitnessApp ==
  \E g \in PollerIds :
    /\ pollers[g].used /\ ~pollers[g].batch /\ pollers[g].fetches = 1
    /\ g \notin activeTimers /\ ResultFetches(net, g) = 1

\* A per-PID poller in the same position.
C18_WitnessPid ==
  \E g \in PollerIds :
    /\ pidPollers[g].used /\ pidPollers[g].fetches = 1
    /\ g \notin pidTimers /\ PidResultFetches(pidNet, g) = 1

C18_Witness == C18_WitnessApp \/ C18_WitnessPid

\* C19: in every reachable state of App the results view has what it
\* dereferences: appState = 'results' implies that analysisId and
\* selectedPlugin are both non-null.
C19_ResultsViewHasItsIds ==
  appState = "results" => (analysisId # None /\ selectedPlugin # NoPlugin)

\* C20: every entry of pidResults belongs to the selected process: the rows
\* an entry shows were fetched for selectedPid.
C20_EntriesBelongToSelectedPid ==
  \A k \in PidKeys :
    \A i \in DOMAIN pidResults[k].data :
      pidResults[k].data[i].pid = selectedPid

\* C21: in the 'results' state, once no request is outstanding, the rows
\* shown are the rows fetched for the plugin named by selectedPlugin.
C21_ResultsMatchSelectedPlugin ==
  (/\ appState = "results" /\ analysisId # None /\ selectedPlugin # NoPlugin
   /\ net = EmptyBag)
    => results = ResultRows(analysisId, selectedPlugin)

\* C22: App enters 'processing', and a polling timer is started, only in
\* the step in which a run request resolves; a rejected run request sets
\* appState = 'error' with the rejection message, leaves no timer active and
\* issues no status request.  A per-PID timer is started only in the step in
\* which a per-PID run request resolves; a rejected one marks the plugin
\* 'failed' with the rejection message, starts no timer and issues no status
\* request.
C22_PollingOnlyAfterRunResolved ==
  [][ /\ (appState' = "processing" /\ appState # "processing")
           => \E m \in BagToSet(net) : RunResolved(m)
      /\ ~(activeTimers' \subseteq activeTimers)
           => \E m \in BagToSet(net) : RunResolved(m) \/ AllStatusResolved(m)
      /\ \A m \in BagToSet(net) :
           RunRejected(m)
             => /\ appState' = "error"
                /\ error' = Rejection.message
                /\ activeTimers' = {}
                /\ \A g \in PollerIds :
                     TickRequests(net', g) = TickRequests(net, g)
      /\ ~(pidTimers' \subseteq pidTimers)
           => \E m \in BagToSet(pidNet) : PidRunResolved(m)
      /\ \A m \in BagToSet(pidNet) :
           PidRunRejected(m)
             => /\ pidResults'[m.key].status = "failed"
                /\ pidResults'[m.key].error = Rejection.message[1]
                /\ pidTimers' = pidTimers
                /\ \A g \in PollerIds :
                     PidTickRequests(pidNet', g) = PidTickRequests(pidNet, g)
    ]_vars

\* The error view after a rejected run request that never reached the
\* service: no job was started and nothing polls.
C22_WitnessApp ==
  /\ appState = "error" /\ error = Rejection.message
  /\ selectedPlugin # NoPlugin /\ runsIssued > 0
  /\ \A p \in Plugins : jobs["a1"][p] = "not_started"
  /\ activeTimers = {} /\ net = EmptyBag

C22_WitnessPid ==
  /\ selectedPid # NoPid /\ pidRuns > 0
  /\ \E k \in PidKeys :
       /\ pidResults[k].status = "failed"
       /\ pidResults[k].error = Rejection.message[1]
       /\ pidJobs[selectedPid][k] = "not_started"
  /\ pidTimers = {} /\ pidNet = EmptyBag
  /\ \A q \in Pids, k \in PidKeys : pidJobs[q][k] = "not_started"

C22_Witness == C22_WitnessApp \/ C22_WitnessPid

\* C23: App holds at most one active polling timer, and a timer is active
\* only while appState = 'processing' with a non-null analysisId and a
\* selected plugin or a non-empty batch.
C23_OneTimerOnlyWhileProcessing ==
  /\ Cardinality(activeTimers) <= 1
  /\ activeTimers # {}
       => /\ appState = "processing"
          /\ analysisId # None
          /\ \/ selectedPlugin # NoPlugin
             \/ (isBatchMode /\ Len(selectedPlugins) > 0)

\* A timer is active while the closure of an earlier, cleared timer still
\* has a request outstanding: the effect replaced one timer by another.
C23_Witness ==
  /\ Cardinality(activeTimers) = 1 /\ appState = "processing"
  /\ \E g \in PollerIds \ activeTimers :
       pollers[g].used /\ \E m \in BagToSet(net) : m.g = g

\* C24: under fair ticks, fair delivery of successful responses and jobs
\* that end once started, a batch run that is in 'processing' eventually
\* shows 'results' or 'error'.
C24_BatchEventuallyLeavesProcessing ==
  (appState = "processing" /\ isBatchMode)
    ~> (appState \in {"results", "error"})

\* C25: in UploadForm, a status response 'failed' and a rejected status
\* check stop the polling and bring the form back to the project
\* configuration view; a status response 'completed' stops the polling, and
\* onUploadSuccess is called once and no more.
C25_SymbolPollingOutcome ==
  [][ /\ \A m \in BagToSet(symNet) :
           /\ ((SymStatusResolved(m) /\ m.status = "failed")
               \/ SymStatusRejected(m))
                => /\ ~symTimer'
                   /\ UploadFormView(isUploadingSymbols', symbolJobId')
                        = "configuration"
           /\ (SymStatusResolved(m) /\ m.status = "completed") => ~symTimer'
      /\ uploadSuccessCalls' <= 1 ]_vars

\* C26: trackedPids belongs to the current analysisId: once no request is
\* outstanding, every tracked process shown was returned for ctxAnalysisId
\* (and none is shown for a null analysisId).
C26_TrackedPidsBelongToAnalysis ==
  ctxNet = EmptyBag
    => \A t \in trackedPids : t.analysis = ctxAnalysisId

\* C27: a rejected getTrackedPids leaves trackedPids unchanged and sets
\* isLoading to false; a rejected mutating request leaves trackedPids and
\* isLoading unchanged, issues no refresh and reaches the caller as a
\* rejection; with a null analysisId refreshTrackedPids, addTrackedPid,
\* removeTrackedPid and updatePid issue no request and change no cell.
C27_ProviderErrorHandling ==
  [][ /\ \A m \in BagToSet(ctxNet) :
           /\ TrackedPidsRejected(m)
                => /\ trackedPids' = trackedPids
                   /\ isLoading' = FALSE
                   /\ InFlight(ctxNet') = InFlight(ctxNet) - 1
           /\ MutationRejected(m)
                => /\ trackedPids' = trackedPids
                   /\ isLoading' = isLoading
                   /\ InFlight(ctxNet') = InFlight(ctxNet) - 1
                   /\ ctxThrown' = ctxThrown + 1
      /\ (/\ ctxAnalysisId = None
          /\ \/ RefreshTrackedPids
             \/ \E q \in Pids :
                  AddTrackedPid(q) \/ RemoveTrackedPid(q) \/ UpdatePidFn(q))
           => /\ ctxNet' = ctxNet
              /\ UNCHANGED <<ctxAnalysisId, trackedPids, isLoading,
                             serverTracked, ctxThrown>> ]_vars

\* A mutating request was rejected while a list is shown and no refresh
\* followed.
C27_Witness ==
  /\ ctxThrown > 0 /\ ctxNet = EmptyBag
  /\ trackedPids # {} /\ isLoading = FALSE

====
